---- MODULE Spec2Model ----
(***************************************************************************)
(* A model of the ZKTeco device client of horus-attendance                  *)
(* (src-tauri/src/zkteco): the Tauri command handlers (commands.rs), the    *)
(* high-level client ZKClient (client.rs) and the session behaviour of the  *)
(* two transports ZKTcp (tcp.rs) and ZKUdp (udp.rs), with the packet       *)
(* encoders and the time decoder of protocol.rs.                           *)
(*                                                                         *)
(* The client is one asynchronous activity; its position is pc together    *)
(* with the stack of return labels of the calls in progress.  The device   *)
(* and the network are the environment: every dial and every exchange      *)
(* (one packet written, one reply awaited) ends in one of the outcomes the  *)
(* code distinguishes, chosen nondeterministically.                        *)
(*                                                                         *)
(* Strings that the code builds and inspects (error messages) are          *)
(* sequences of text fragments; `contains` on the lower-cased string is     *)
(* modelled by the table Keywords, which lists for every fragment the      *)
(* search keys of format_error and sync_device_all that occur in it.       *)
(***************************************************************************)
EXTENDS Integers, Sequences, FiniteSets, TLC

\* ------------------------------------------------------------------ bounds
\* Largest session id the device hands out in a CMD_CONNECT acknowledgment.
MaxSessionId == 1
\* Largest number of records (users, logs) or count in a device answer.
MaxRecords == 1
\* Largest number of chunks (total_packets) a PREPARE_DATA answer declares.
MaxChunks == 1
\* The same in the runs of a direct user of ZKClient.
MaxApiChunks == 2
\* Calls the API driver makes on one connected ZKClient.
MaxApiCalls == 2
\* Largest number of attendance records one fetch returns to the range filter.
MaxFetched == 2

\* ------------------------------------------------- protocol.rs: constants
CMD_CONNECT == 1000
CMD_EXIT == 1001
CMD_AUTH == 1102
CMD_PREPARE_DATA == 1500
CMD_DATA == 1501
CMD_FREE_DATA == 1502
CMD_DATA_WRRQ == 1503
CMD_DATA_RDY == 1504
CMD_GET_FREE_SIZES == 50
CMD_REG_EVENT == 500
CMD_ACK_OK == 2000
CMD_ACK_ERROR == 2001
CMD_ACK_UNAUTH == 2005
USHRT_MAX == 65535
U16 == 65536
U32_MAX == <<"4", "2", "9", "4", "9", "6", "7", "2", "9", "5">>
U8_MAX == <<"2", "5", "5">>

Kinds == {"Tcp", "Udp"}

\* command_name: the name a response code is reported under.
command_name(cmd_id) ==
    CASE cmd_id = 2000 -> "CMD_ACK_OK"
      [] cmd_id = 2001 -> "CMD_ACK_ERROR"
      [] cmd_id = 2002 -> "CMD_ACK_DATA"
      [] cmd_id = 2003 -> "CMD_ACK_RETRY"
      [] cmd_id = 2004 -> "CMD_ACK_REPEAT"
      [] cmd_id = 2005 -> "CMD_ACK_UNAUTH"
      [] cmd_id = 65535 -> "CMD_ACK_UNKNOWN"
      [] cmd_id = 65533 -> "CMD_ACK_ERROR_CMD"
      [] cmd_id = 65532 -> "CMD_ACK_ERROR_INIT"
      [] cmd_id = 65531 -> "CMD_ACK_ERROR_DATA"
      [] OTHER -> "UNKNOWN_COMMAND"

\* The reply id written on the wire by create_tcp_header / create_udp_header:
\* reply_id.wrapping_add(1) % (USHRT_MAX as u16).
wire_reply_id(reply_id) == ((reply_id + 1) % U16) % USHRT_MAX

\* u16::to_le_bytes / u16::from_le_bytes
to_le_bytes(v) == <<v % 256, v \div 256>>
from_le_bytes(lo, hi) == lo + 256 * hi

RECURSIVE checksum_from(_, _, _)
\* The loop of create_checksum from offset i on, chksum being the sum so far.
checksum_from(b, i, chksum) ==
    IF i >= Len(b) THEN chksum
    ELSE checksum_from(b, i + 2,
            (chksum + (IF i = Len(b) - 1 THEN b[i + 1]
                       ELSE from_le_bytes(b[i + 1], b[i + 2]))) % USHRT_MAX)

\* A faulty create_checksum: a trailing odd byte is left out of the sum.
create_checksum_even_only(b) ==
    (USHRT_MAX - checksum_from(SubSeq(b, 1, 2 * (Len(b) \div 2)), 0, 0) - 1) % U16

\* create_checksum: USHRT_MAX - sum - 1, as u16.
create_checksum(b) == (USHRT_MAX - checksum_from(b, 0, 0) - 1) % U16

\* create_udp_header: the header with the checksum field still zero and the
\* reply id field holding its wire value, then the checksum written.
create_udp_header(cmd, session_id, reply_id, data) ==
    LET b == to_le_bytes(cmd) \o <<0, 0>> \o to_le_bytes(session_id)
             \o to_le_bytes(wire_reply_id(reply_id)) \o data
        chksum == create_checksum(b)
    IN  [b EXCEPT ![3] = to_le_bytes(chksum)[1], ![4] = to_le_bytes(chksum)[2]]

TCP_PREFIX == <<80, 80, 130, 125>>

\* A faulty create_tcp_header: four zero bytes before the inner length.
create_tcp_header_zeros_first(cmd, session_id, reply_id, data) ==
    LET inner == create_udp_header(cmd, session_id, reply_id, data) IN
    TCP_PREFIX \o <<0, 0, 0, 0>> \o to_le_bytes(Len(inner) % U16) \o <<0, 0>> \o inner

\* create_tcp_header: the inner packet, built as create_udp_header builds
\* its packet, behind the prefix, the inner length (as u16) and two zeros.
create_tcp_header(cmd, session_id, reply_id, data) ==
    LET inner == create_udp_header(cmd, session_id, reply_id, data) IN
    TCP_PREFIX \o to_le_bytes(Len(inner) % U16) \o <<0, 0>> \o inner

\* ------------------------------------------------------------ text values
\* A string is a sequence of one-character strings where it is parsed
\* (comm_key, the octets of ip), and a sequence of fragments where it is an
\* error message.

DigitValue(c) ==
    CASE c = "0" -> 0 [] c = "1" -> 1 [] c = "2" -> 2 [] c = "3" -> 3
      [] c = "4" -> 4 [] c = "5" -> 5 [] c = "6" -> 6 [] c = "7" -> 7
      [] c = "8" -> 8 [] c = "9" -> 9 [] OTHER -> -1

IsDigits(s) == \A i \in 1..Len(s) : DigitValue(s[i]) >= 0

RECURSIVE strip_zeros(_)
\* The digit string without its leading zeros (empty for the value 0).
strip_zeros(s) ==
    IF s # <<>> /\ Head(s) = "0" THEN strip_zeros(Tail(s)) ELSE s

RECURSIVE digits_greater(_, _)
\* a > b for digit strings of equal length.
digits_greater(a, b) ==
    IF a = <<>> THEN FALSE
    ELSE IF DigitValue(Head(a)) # DigitValue(Head(b))
    THEN DigitValue(Head(a)) > DigitValue(Head(b))
    ELSE digits_greater(Tail(a), Tail(b))

\* The number n exceeds max, both digit strings without leading zeros.
exceeds(n, max) ==
    \/ Len(n) > Len(max)
    \/ Len(n) = Len(max) /\ digits_greater(n, max)

\* str::parse::<uN>() for the type whose largest value is max: an optional
\* leading '+', then at least one digit, and no overflow.  The value is kept
\* as its digits without leading zeros, since u32 values do not all fit the
\* integers of the model checker.
parse_unsigned(s, max) ==
    LET d == IF s # <<>> /\ Head(s) = "+" THEN Tail(s) ELSE s IN
    IF d = <<>> \/ ~IsDigits(d) \/ exceeds(strip_zeros(d), max)
    THEN [ok |-> FALSE, digits |-> <<>>]
    ELSE [ok |-> TRUE, digits |-> strip_zeros(d)]

\* The search keys of format_error and sync_device_all that occur in the
\* lower-cased fragment.
Keywords(frag) ==
    CASE frag = "TCP connect timeout to" -> {"timeout"}
      [] frag = "Timeout waiting for TCP response" -> {"timeout"}
      [] frag = "Timeout waiting for UDP response" -> {"timeout"}
      [] frag = "Timeout receiving data request response" -> {"timeout"}
      [] frag = "Timeout receiving chunk data," -> {"timeout"}
      [] frag = "Timeout receiving UDP chunk, got" -> {"timeout"}
      [] frag = "Connection refused (os error 111)" -> {"connection refused"}
      [] frag = "No route to host (os error 113)" -> {"no route to host"}
      [] frag = "Broken pipe (os error 32)" -> {"broken pipe", "os error 32"}
      [] frag = "Device authentication failed:" -> {"auth"}
      [] frag = "Device authentication failed (response:" -> {"auth"}
      [] frag = "Device authentication failed: empty response" -> {"auth"}
      [] frag = "CMD_ACK_UNAUTH" -> {"auth"}
      [] frag = "Connection timeout - the device did not respond in time. It may be off, unreachable, or the IP/port may be wrong. (" -> {"timeout"}
      [] frag = "Connection refused - check if device is powered on and network accessible" -> {"connection refused"}
      [] frag = "Authentication failed - check communication key" -> {"auth"}
      [] OTHER -> {}

\* error.to_lowercase().contains(key)
contains(error, key) == \E i \in 1..Len(error) : key \in Keywords(error[i])

\* The byte of a character of a date or a timestamp.
byte_of(c) ==
    CASE c = "-" -> 45 [] c = "." -> 46 [] c = ":" -> 58 [] c = "T" -> 84
      [] c = "Z" -> 90 [] OTHER -> 48 + DigitValue(c)

RECURSIVE str_le(_, _)
\* a <= b for strings: the order of their bytes, a prefix before the longer.
str_le(a, b) ==
    IF a = <<>> THEN TRUE
    ELSE IF b = <<>> THEN FALSE
    ELSE IF byte_of(Head(a)) # byte_of(Head(b)) THEN byte_of(Head(a)) < byte_of(Head(b))
    ELSE str_le(Tail(a), Tail(b))

RECURSIVE pad(_, _)
\* The number n in width digits, zero-padded ({:04}, {:02}).
pad(n, width) ==
    IF width = 0 THEN <<>>
    ELSE pad(n \div 10, width - 1)
         \o <<(<<"0", "1", "2", "3", "4", "5", "6", "7", "8", "9">>)[(n % 10) + 1]>>

\* ------------------------------------------------ protocol.rs: parse_zk_time
\* The last day of a month of the calendar.
last_day(year, month) ==
    CASE month = 2 ->
            IF (year % 4 = 0 /\ year % 100 # 0) \/ year % 400 = 0 THEN 29 ELSE 28
      [] month \in {4, 6, 9, 11} -> 30
      [] OTHER -> 31

\* "%Y-%m-%dT%H:%M:%S%.3fZ" of a date-time without fraction.
format_time(year, month, day, hour, minute, second) ==
    pad(year, 4) \o <<"-">> \o pad(month, 2) \o <<"-">> \o pad(day, 2) \o <<"T">>
    \o pad(hour, 2) \o <<":">> \o pad(minute, 2) \o <<":">> \o pad(second, 2)
    \o <<".", "0", "0", "0", "Z">>

\* A u32 is kept as its two 16-bit halves, so that values from 2^31 on can
\* be written down.
u32(v) == [hi |-> v \div U16, lo |-> v % U16]

\* time % 60 and time / 60 of a u32 (long division, the high half first).
rem_60(t) == ((t.hi % 60) * U16 + t.lo) % 60
div_60(t) == (t.hi \div 60) * U16 + ((t.hi % 60) * U16 + t.lo) \div 60

\* A faulty parse_zk_time: the day is not clamped to the month.
parse_zk_time_unclamped(t) ==
    LET second == rem_60(t)
        t1 == div_60(t)
        minute == t1 % 60
        t2 == t1 \div 60
        hour == t2 % 24
        t3 == t2 \div 24
        day == (t3 % 31) + 1
        t4 == t3 \div 31
        month == (t4 % 12) + 1
        year == (t4 \div 12) + 2000
    IN  format_time(year, month, day, hour, minute, second)

\* A faulty parse_zk_time: a month is taken as 30 packed days.
parse_zk_time_30_days(t) ==
    LET t3 == (div_60(t) \div 60) \div 24 IN
    format_time(((t3 \div 30) \div 12) + 2000, ((t3 \div 30) % 12) + 1, (t3 % 30) + 1,
                (div_60(t) \div 60) % 24, div_60(t) % 60, rem_60(t))

\* parse_zk_time: the fields are divided off the packed time one by one; a
\* date the calendar has is formatted as it is, and a day the month does not
\* have is clamped to the last day of the month.
parse_zk_time(t) ==
    LET second == rem_60(t)
        t1 == div_60(t)
        minute == t1 % 60
        t2 == t1 \div 60
        hour == t2 % 24
        t3 == t2 \div 24
        day == (t3 % 31) + 1
        t4 == t3 \div 31
        month == (t4 % 12) + 1
        year == (t4 \div 12) + 2000
        clamped_day == IF day < last_day(year, month) THEN day ELSE last_day(year, month)
    IN  IF day <= last_day(year, month)
        THEN format_time(year, month, day, hour, minute, second)
        ELSE format_time(year, month, clamped_day,
                         IF hour < 23 THEN hour ELSE 23,
                         IF minute < 59 THEN minute ELSE 59,
                         IF second < 59 THEN second ELSE 59)

\* --------------------------- client.rs: the date filter of get_attendance_logs
\* start.contains('T')
has_T(str) == \E i \in 1..Len(str) : str[i] = "T"

start_str(start) ==
    IF has_T(start) THEN start ELSE start \o <<"T", "0", "0", ":", "0", "0", ":", "0", "0">>

end_str(end) ==
    IF has_T(end) THEN end ELSE end \o <<"T", "2", "3", ":", "5", "9", ":", "5", "9">>

\* A faulty filter: only the start of the range is applied.
filter_logs_start_only(logs_in, opts) ==
    IF opts.some /\ opts.mode = "range" /\ opts.start_date.some /\ opts.end_date.some
    THEN SelectSeq(logs_in, LAMBDA ts : str_le(start_str(opts.start_date.s), ts))
    ELSE logs_in

\* The filter: with mode "range" and both dates given, the logs whose
\* timestamp lies in [start_str, end_str] are retained; else all are.
filter_logs(logs_in, opts) ==
    IF opts.some /\ opts.mode = "range" /\ opts.start_date.some /\ opts.end_date.some
    THEN SelectSeq(logs_in, LAMBDA ts : /\ str_le(start_str(opts.start_date.s), ts)
                                        /\ str_le(ts, end_str(opts.end_date.s)))
    ELSE logs_in

\* ------------------------------------------------- client.rs: format_error
format_error(error) ==
    IF \/ contains(error, "no route to host")
       \/ contains(error, "ehostunreach")
       \/ contains(error, "host unreachable")
       \/ contains(error, "broken pipe")
       \/ contains(error, "os error 32")
       \/ contains(error, "os error 65")
    THEN <<"Device is unreachable - make sure the ZKTeco device is powered on, connected to the network, and on the same subnet as this computer. (">>
         \o error \o <<")">>
    ELSE IF contains(error, "timeout") \/ contains(error, "etimedout")
    THEN <<"Connection timeout - the device did not respond in time. It may be off, unreachable, or the IP/port may be wrong. (">>
         \o error \o <<")">>
    ELSE IF contains(error, "econnrefused") \/ contains(error, "connection refused")
    THEN <<"Connection refused - check if device is powered on and network accessible">>
    ELSE IF contains(error, "auth") \/ contains(error, "password")
    THEN <<"Authentication failed - check communication key">>
    ELSE error

\* ------------------------------------------------------------------ state
VARIABLES
    command,      \* the Tauri command (or "api", a direct user of ZKClient) running
    config,       \* its DeviceConfig
    env,          \* what the network and the device may do in this run
    pc,           \* the label of the step to run next
    stack,        \* return labels of the calls in progress, innermost first
    rv,           \* the value the last finished call returned
    transport,    \* ZKClient.transport of the client in use: "None", "Tcp", "Udp"
    tr,           \* the ZKTcp and the ZKUdp object: stream/socket, session_id, reply_id
    open,         \* per kind, the number of sockets this program holds open
    wire,         \* packets written since the last ZKClient::connect began
    seenUnauth,   \* since then, CMD_ACK_UNAUTH answered a command whose reply is used
    tcp_error,    \* the last connect: the message of the failed TCP attempt
    udp_error,    \* the last connect: the message of the failed UDP attempt
    auth_error,   \* the last connect: the message of the failed auth call
    chosen,       \* the last connect: the kind of the client it returned, or "None"
    authAck,      \* the last connect: the fate of CMD_AUTH: "none", "ok", "refused", "lost"
    connect_ack,  \* the last connect: the session id field of the last CMD_CONNECT reply
    fetch,        \* the bulk read in progress: request, whether the first
                  \* free_data succeeded, declared chunks, records read
    users,        \* sync_all: users.len()
    users_via,    \* sync_all: the kind of the transport the users came over
    logs,         \* sync_all: logs.len()
    last_err,     \* sync_all: last_err
    attempt,      \* sync_all: attempt of the logs loop
    cmd_attempt,  \* sync_device_all: attempt
    last_error,   \* sync_device_all: last_error
    held,         \* a command's pending result (info / users / logs / device_info)
    calls,        \* api: calls made on the client so far
    result,       \* what the command returned
    options,      \* get_attendance_logs: the SyncOptions it is called with
    raw_records,  \* get_attendance_logs: the timestamps of the records fetched
    filtered,     \* get_attendance_logs: the timestamps of the logs it returns
    header_args,  \* create_*_header: command, session_id, reply_id, data
    buf,          \* create_*_header: the bytes of the packet built
    time,         \* parse_zk_time: the packed time, a u32 in two 16-bit halves
    iso,          \* parse_zk_time: the string it returns
    zk,           \* a bulk read: the ZKTcp / ZKUdp object that runs it
    rwb,          \* a bulk read: the locals of read_with_buffer
    io            \* a bulk read: the packets written and the reads made, in order

\* The arguments and results of the functions checked one call at a time.
filterVars == <<options, raw_records, filtered>>
headerVars == <<header_args, buf>>
timeVars == <<time, iso>>
streamVars == <<zk, rwb, io>>
callVars == <<filterVars, headerVars, timeVars, streamVars>>

vars == <<callVars, command, config, env, pc, stack, rv, transport, tr, open, wire, seenUnauth,
          tcp_error, udp_error, auth_error, chosen, authAck, connect_ack,
          fetch, users, users_via, logs, last_err, attempt, cmd_attempt,
          last_error, held, calls, result>>

\* ------------------------------------------------------------ environment
\* The text of the OS error a failed socket call carries.
OsErrorText(e) ==
    CASE e = "refused" -> "Connection refused (os error 111)"
      [] e = "noroute" -> "No route to host (os error 113)"
      [] e = "pipe" -> "Broken pipe (os error 32)"
      [] e = "reset" -> "Connection reset by peer (os error 104)"
      [] e = "lookup" -> "failed to lookup address information: Name or service not known"

\* env bounds the behaviour of the network and of the device in a run: the
\* outcomes of a dial (dial) and of a UDP bind and connect (bind), the ways
\* an exchange fails (fail), the session ids the device hands out (sids),
\* and the response codes and inner lengths of the replies to a single
\* command (cmds, lens) and of the first response to CMD_DATA_WRRQ (first,
\* flens), and the most chunks the device declares (chunks).

\* An octet as the address parser of the standard library takes it: one to
\* three digits, no sign, no leading zero, at most 255.
ipv4_octet(s) ==
    /\ s # <<>>
    /\ IsDigits(s)
    /\ Len(s) <= 3
    /\ (Len(s) > 1 => Head(s) # "0")
    /\ ~exceeds(s, U8_MAX)

\* format!("{}:{}", ip, port) is the text of a socket address.
is_socket_addr(ip) == Len(ip) = 4 /\ \A i \in 1..4 : ipv4_octet(ip[i])

\* Outcomes of TcpStream::connect under its timeout.  A text that is not a
\* socket address is looked up as a host name, which fails or times out.
DialOutcomes ==
    IF is_socket_addr(config.ip)
    THEN {"ok", "timeout", "refused", "noroute"} \cap env.dial
    ELSE {"lookup"} \cup ({"timeout"} \cap env.dial)
\* Outcomes of UdpSocket::bind / connect.
BindOutcomes == {"ok", "noroute"} \cap env.bind

\* What the device sends back: the response code, the session id field and
\* the length of the inner packet (header and payload, the TCP envelope
\* removed): 1 is shorter than a response code, 4 shorter than the session
\* id field, 8 a bare header, 84 a header with a 76-byte payload.
ReplyLens == {1, 4, 8, 84}
ReplyCmds == {CMD_ACK_OK, CMD_ACK_UNAUTH, CMD_REG_EVENT}
Replies == [fail : {"none"}, cmd : ReplyCmds \cap env.cmds, sid : (1..MaxSessionId) \cap env.sids,
            len : ReplyLens \cap env.lens]

\* Outcomes of one exchange (write one packet, read one reply): the
\* failures of the write and of the read (fail), or a reply (fail = "none").  A TCP read of zero
\* bytes is the device closing the connection; UDP has no such outcome.
Failures(k) ==
    (IF k = "Tcp" THEN {"write_pipe", "timeout", "read_reset", "closed"}
     ELSE {"write_refused", "timeout", "read_refused"}) \cap env.fail

Ok(v) == [ok |-> TRUE, val |-> v, err |-> <<>>]
Err(e) == [ok |-> FALSE, val |-> 0, err |-> e]

\* The message of a failed exchange of execute_cmd.
ExchangeError(k, f) ==
    CASE f = "write_pipe" -> <<"TCP write failed:", OsErrorText("pipe")>>
      [] f = "write_refused" -> <<"UDP send failed:", OsErrorText("refused")>>
      [] f = "timeout" /\ k = "Tcp" -> <<"Timeout waiting for TCP response">>
      [] f = "timeout" /\ k = "Udp" -> <<"Timeout waiting for UDP response">>
      [] f = "read_reset" -> <<"TCP read failed:", OsErrorText("reset")>>
      [] f = "read_refused" -> <<"UDP recv failed:", OsErrorText("refused")>>
      [] f = "closed" -> <<"Connection closed by device">>

\* ZKTcp::new / ZKUdp::new
new_transport == [stream |-> FALSE, session_id |-> 0, reply_id |-> 0]

NoResult == [ok |-> FALSE, val |-> 0, err |-> <<"pending">>]


\* ------------------------------------------- tcp.rs / udp.rs: one exchange
\* The counters as execute_cmd sets them before it encodes the packet.
next_ids(obj, cmd) ==
    IF cmd = CMD_CONNECT
    THEN [obj EXCEPT !.session_id = 0, !.reply_id = 0]
    ELSE [obj EXCEPT !.reply_id = (@ + 1) % U16]

\* The header fields of the packet create_tcp_header / create_udp_header builds.
packet(k, obj, cmd) ==
    [t |-> k, c |-> cmd, sid |-> obj.session_id, rid |-> wire_reply_id(obj.reply_id)]

Outcomes(k) == [fail : Failures(k), cmd : {0}, sid : {0}, len : {0}] \cup Replies

\* execute_cmd with outcome o: the object afterwards, the packets handed to
\* the socket, and the result (the reply, or the error message).
execute_cmd(k, obj, cmd, o) ==
    LET b == next_ids(obj, cmd) IN
    IF ~b.stream
    THEN [obj |-> b, sent |-> <<>>,
          res |-> Err(<<IF k = "Tcp" THEN "TCP not connected" ELSE "UDP not connected">>)]
    ELSE IF o.fail # "none"
    THEN [obj |-> b, sent |-> <<packet(k, b, cmd)>>, res |-> Err(ExchangeError(k, o.fail))]
    ELSE [obj |-> b, sent |-> <<packet(k, b, cmd)>>, res |-> Ok(o)]

\* The part of connect after the socket is open: CMD_CONNECT, then the
\* session id from bytes 4..6 of the acknowledgment when it has them.
connect_cmd(k, obj, o) ==
    LET r == execute_cmd(k, obj, CMD_CONNECT, o) IN
    IF r.res.ok /\ o.len >= 6
    THEN [r EXCEPT !.obj.session_id = o.sid, !.res = Ok(0)]
    ELSE IF r.res.ok THEN [r EXCEPT !.res = Ok(0)]
    ELSE r

\* A faulty auth: any reply to CMD_AUTH counts as success.
auth_any_reply(k, obj, o) ==
    LET r == execute_cmd(k, obj, CMD_AUTH, o) IN
    IF r.res.ok THEN [r EXCEPT !.res = Ok(0)] ELSE r

\* auth: CMD_AUTH is answered by CMD_ACK_OK, or it failed.
auth(k, obj, o) ==
    LET r == execute_cmd(k, obj, CMD_AUTH, o) IN
    IF ~r.res.ok THEN r
    ELSE IF o.len >= 2
    THEN IF o.cmd = CMD_ACK_OK
         THEN [r EXCEPT !.res = Ok(0)]
         ELSE [r EXCEPT !.res = Err(<<"Device authentication failed (response:",
                                       command_name(o.cmd), ")">>)]
    ELSE [r EXCEPT !.res = Err(<<"Device authentication failed: empty response">>)]

\* get_info: the counts at payload offsets 24 and 40 when the payload after
\* the 8-byte header has 76 bytes, else (0, 0).  The response code is not
\* looked at.
get_info(k, obj, o, counts) ==
    LET r == execute_cmd(k, obj, CMD_GET_FREE_SIZES, o) IN
    IF ~r.res.ok THEN r
    ELSE IF (IF o.len > 8 THEN o.len - 8 ELSE o.len) >= 76
    THEN [r EXCEPT !.res = Ok(counts)]
    ELSE [r EXCEPT !.res = Ok([user_count |-> 0, log_count |-> 0])]

\* free_data: CMD_FREE_DATA; the callers discard its result.
free_data(k, obj, o) ==
    LET r == execute_cmd(k, obj, CMD_FREE_DATA, o) IN
    IF r.res.ok THEN [r EXCEPT !.res = Ok(0)] ELSE r

\* A faulty disconnect: the socket is closed and CMD_EXIT never written.
disconnect_without_exit(k, obj, o) ==
    [obj |-> [obj EXCEPT !.stream = FALSE], sent |-> <<>>, res |-> Ok(0),
     closed |-> IF obj.stream THEN 1 ELSE 0]

\* disconnect of a transport: when it holds a socket, CMD_EXIT (its result
\* discarded), then the socket is closed; `closed` tells that a socket was.
disconnect(k, obj, o) ==
    IF obj.stream
    THEN LET r == execute_cmd(k, obj, CMD_EXIT, o) IN
         [obj |-> [r.obj EXCEPT !.stream = FALSE], sent |-> r.sent,
          res |-> Ok(0), closed |-> 1]
    ELSE [obj |-> obj, sent |-> <<>>, res |-> Ok(0), closed |-> 0]

\* A faulty Drop: the socket outlives the transport.
drop_keeps_socket(obj) == [obj |-> new_transport, closed |-> 0]

\* Drop for ZKTcp / ZKUdp: the socket, if any, is closed; nothing is sent.
drop(obj) ==
    [obj |-> new_transport, closed |-> IF obj.stream THEN 1 ELSE 0]

\* The device answered with CMD_ACK_UNAUTH.
is_unauth(o) == o.fail = "none" /\ o.len >= 2 /\ o.cmd = CMD_ACK_UNAUTH

\* The exchange r was answered with CMD_ACK_UNAUTH, and its command is not
\* one whose result the callers throw away (free_data().await.ok(),
\* let _ = execute_cmd(CMD_EXIT)).
unauth_answer(r, o) ==
    /\ r.sent # <<>>
    /\ r.sent[1].c \notin {CMD_FREE_DATA, CMD_EXIT}
    /\ is_unauth(o)

\* ------------------------------------------------------- control helpers
Call(target, ret) == pc' = target /\ stack' = <<ret>> \o stack
Return(v) == pc' = Head(stack) /\ stack' = Tail(stack) /\ rv' = v
Goto(l) == pc' = l /\ stack' = stack

\* The state of the network side after transport k ran an exchange r.
Exchanged(k, r, o) ==
    /\ tr' = [tr EXCEPT ![k] = r.obj]
    /\ wire' = wire \o r.sent
    /\ seenUnauth' = (seenUnauth \/ unauth_answer(r, o))

\* The same after a disconnect r of transport k whose object is not used
\* again: it is dropped when its owner goes out of scope.
Disconnected(k, r, o) ==
    /\ tr' = [tr EXCEPT ![k] = drop(r.obj).obj]
    /\ open' = [open EXCEPT ![k] = @ - r.closed - drop(r.obj).closed]
    /\ wire' = wire \o r.sent
    /\ seenUnauth' = (seenUnauth \/ unauth_answer(r, o))

cmdVars == <<callVars, command, config, env, cmd_attempt, last_error, held, calls, result>>
syncVars == <<users, users_via, logs, last_err, attempt>>
connVars == <<tcp_error, udp_error, auth_error, chosen, authAck, connect_ack>>


\* --------------------------------------------- client.rs: ZKClient::connect
\* A faulty comm_key: a key that does not parse counts as 1.
comm_key_or_one(cfg) ==
    LET s == IF cfg.comm_key.some THEN cfg.comm_key.s ELSE <<"0">>
        v == parse_unsigned(s, U32_MAX)
    IN  IF v.ok THEN v.digits ELSE <<"1">>

\* config.comm_key.as_deref().unwrap_or("0").parse().unwrap_or(0), as the
\* digits of the value (none for 0).
comm_key(cfg) ==
    LET s == IF cfg.comm_key.some THEN cfg.comm_key.s ELSE <<"0">>
        v == parse_unsigned(s, U32_MAX)
    IN  IF v.ok THEN v.digits ELSE <<>>

\* comm_key > 0
key_is_set(key) == key # <<>>

\* The message of a failed TcpStream::connect.
DialError(d) ==
    IF d = "timeout" THEN <<"TCP connect timeout to", "ADDR">>
    ELSE <<"TCP connect failed to", "ADDR:", OsErrorText(d)>>

\* "Failed to connect to device {}:{} - TCP: {} | UDP: {}"
combined_error(tcpe, udpe) ==
    <<"Failed to connect to device", "ADDR", "- TCP:">> \o tcpe \o <<"| UDP:">> \o udpe

\* What connect returns when the auth call failed with e.
auth_failure(e) == <<"Device authentication failed:">> \o e

\* What connect does once tcp.connect() returned Ok: authenticate when a
\* comm key is set, else hand out the TCP-backed client.
after_tcp_connect(cfg) == IF key_is_set(comm_key(cfg)) THEN "tcp_auth" ELSE "return"

\* The same for udp.connect().
after_udp_connect(cfg) == IF key_is_set(comm_key(cfg)) THEN "udp_auth" ELSE "return"

\* connect returns v; chosen remembers the kind of the client handed out.
ConnectReturns(v) ==
    /\ Return(v)
    /\ chosen' = (IF v.ok THEN v.val ELSE "None")

\* Bytes 4..6 of the reply to CMD_CONNECT, when a reply came and has them.
NoAck == [has_sid |-> FALSE, sid |-> 0]
ack_of(o) ==
    IF o.fail = "none" /\ o.len >= 6 THEN [has_sid |-> TRUE, sid |-> o.sid] ELSE NoAck

\* What the device made of CMD_AUTH, as seen on the wire.
auth_ack(o) ==
    IF o.fail = "none" /\ o.len >= 2 /\ o.cmd = CMD_ACK_OK THEN "ok"
    ELSE IF o.fail = "none" THEN "refused"
    ELSE "lost"

\* ZKTcp::new, then the dial of ZKTcp::connect.
TcpDial ==
    /\ pc = "connect"
    /\ \E d \in DialOutcomes :
        IF d = "ok"
        THEN /\ tr' = [tr EXCEPT !.Tcp = [new_transport EXCEPT !.stream = TRUE]]
             /\ open' = [open EXCEPT !.Tcp = @ + 1]
             /\ tcp_error' = <<>>
             /\ Goto("tcp_connect")
        ELSE /\ tr' = [tr EXCEPT !.Tcp = new_transport]
             /\ open' = open
             /\ tcp_error' = DialError(d)
             /\ Goto("tcp_failed")
    /\ wire' = <<>>
    /\ seenUnauth' = FALSE
    /\ udp_error' = <<>>
    /\ auth_error' = <<>>
    /\ chosen' = "None"
    /\ authAck' = "none"
    /\ connect_ack' = NoAck
    /\ UNCHANGED <<rv, transport, fetch>>
    /\ UNCHANGED <<cmdVars, syncVars>>

\* The CMD_CONNECT exchange of ZKTcp::connect and the match on its result.
TcpConnect ==
    /\ pc = "tcp_connect"
    /\ \E o \in Outcomes("Tcp") :
        LET r == connect_cmd("Tcp", tr.Tcp, o) IN
        /\ Exchanged("Tcp", r, o)
        /\ connect_ack' = ack_of(o)
        /\ IF r.res.ok
           THEN IF after_tcp_connect(config) = "tcp_auth"
                THEN /\ Goto("tcp_auth")
                     /\ UNCHANGED <<rv, transport, tcp_error, chosen>>
                ELSE /\ ConnectReturns(Ok("Tcp"))
                     /\ transport' = "Tcp"
                     /\ UNCHANGED tcp_error
           ELSE /\ tcp_error' = r.res.err
                /\ Goto("tcp_failed")
                /\ UNCHANGED <<rv, transport, chosen>>
    /\ UNCHANGED <<open, fetch, udp_error, auth_error, authAck>>
    /\ UNCHANGED <<cmdVars, syncVars>>

\* tcp.auth(comm_key) and the match on its result.
TcpAuth ==
    /\ pc = "tcp_auth"
    /\ \E o \in Outcomes("Tcp") :
        LET r == auth("Tcp", tr.Tcp, o) IN
        /\ Exchanged("Tcp", r, o)
        /\ authAck' = auth_ack(o)
        /\ IF r.res.ok
           THEN /\ ConnectReturns(Ok("Tcp"))
                /\ transport' = "Tcp"
                /\ UNCHANGED auth_error
           ELSE /\ auth_error' = r.res.err
                /\ Goto("tcp_auth_failed")
                /\ UNCHANGED <<rv, transport, chosen>>
    /\ UNCHANGED <<open, fetch, tcp_error, udp_error, connect_ack>>
    /\ UNCHANGED <<cmdVars, syncVars>>

\* A faulty variant: a failed TCP auth falls back to UDP.
TcpAuthFailed_then_udp ==
    /\ pc = "tcp_auth_failed"
    /\ \E o \in Outcomes("Tcp") :
        Disconnected("Tcp", disconnect("Tcp", tr.Tcp, o), o)
    /\ Goto("udp_bind")
    /\ UNCHANGED <<rv, transport, fetch, connVars>>
    /\ UNCHANGED <<cmdVars, syncVars>>

\* After a failed TCP auth: tcp.disconnect(), then the authentication error.
TcpAuthFailed ==
    /\ pc = "tcp_auth_failed"
    /\ \E o \in Outcomes("Tcp") :
        Disconnected("Tcp", disconnect("Tcp", tr.Tcp, o), o)
    /\ ConnectReturns(Err(auth_failure(auth_error)))
    /\ UNCHANGED <<transport, fetch, tcp_error, udp_error, auth_error, authAck, connect_ack>>
    /\ UNCHANGED <<cmdVars, syncVars>>

\* After a failed tcp.connect(): tcp.disconnect(), then on to UDP.
TcpFailed ==
    /\ pc = "tcp_failed"
    /\ \E o \in Outcomes("Tcp") :
        Disconnected("Tcp", disconnect("Tcp", tr.Tcp, o), o)
    /\ Goto("udp_bind")
    /\ UNCHANGED <<rv, transport, fetch, connVars>>
    /\ UNCHANGED <<cmdVars, syncVars>>

\* ZKUdp::new, then bind and connect of the socket in ZKUdp::connect.  When
\* they fail udp.connect() has failed and connect returns the combined error;
\* the socket bound before an address that does not parse is closed again.
UdpBind ==
    /\ pc = "udp_bind"
    /\ \E b \in BindOutcomes :
        IF ~is_socket_addr(config.ip)
        THEN /\ tr' = [tr EXCEPT !.Udp = new_transport]
             /\ open' = open
             /\ udp_error' = <<"Invalid device address:", "invalid socket address syntax">>
             /\ ConnectReturns(Err(format_error(combined_error(tcp_error, udp_error'))))
        ELSE IF b = "ok"
        THEN /\ tr' = [tr EXCEPT !.Udp = [new_transport EXCEPT !.stream = TRUE]]
             /\ open' = [open EXCEPT !.Udp = @ + 1]
             /\ Goto("udp_connect")
             /\ UNCHANGED <<rv, udp_error, chosen>>
        ELSE /\ tr' = [tr EXCEPT !.Udp = new_transport]
             /\ open' = open
             /\ udp_error' = <<"UDP connect failed:", OsErrorText(b)>>
             /\ ConnectReturns(Err(format_error(combined_error(tcp_error, udp_error'))))
    /\ UNCHANGED <<transport, wire, seenUnauth, fetch, tcp_error, auth_error, authAck,
                    connect_ack>>
    /\ UNCHANGED <<cmdVars, syncVars>>

\* The CMD_CONNECT exchange of ZKUdp::connect and the match on its result;
\* on failure udp goes out of scope and its socket is closed by Drop.
UdpConnect ==
    /\ pc = "udp_connect"
    /\ \E o \in Outcomes("Udp") :
        LET r == connect_cmd("Udp", tr.Udp, o) IN
        /\ connect_ack' = ack_of(o)
        /\ wire' = wire \o r.sent
        /\ seenUnauth' = (seenUnauth \/ unauth_answer(r, o))
        /\ IF r.res.ok
           THEN /\ tr' = [tr EXCEPT !.Udp = r.obj]
                /\ open' = open
                /\ IF after_udp_connect(config) = "udp_auth"
                   THEN /\ Goto("udp_auth")
                        /\ UNCHANGED <<rv, transport, udp_error, chosen>>
                   ELSE /\ ConnectReturns(Ok("Udp"))
                        /\ transport' = "Udp"
                        /\ UNCHANGED udp_error
           ELSE /\ tr' = [tr EXCEPT !.Udp = drop(r.obj).obj]
                /\ open' = [open EXCEPT !.Udp = @ - drop(r.obj).closed]
                /\ udp_error' = r.res.err
                /\ ConnectReturns(Err(format_error(combined_error(tcp_error, r.res.err))))
                /\ UNCHANGED transport
    /\ UNCHANGED <<fetch, tcp_error, auth_error, authAck>>
    /\ UNCHANGED <<cmdVars, syncVars>>

\* udp.auth(comm_key) and the match on its result.
UdpAuth ==
    /\ pc = "udp_auth"
    /\ \E o \in Outcomes("Udp") :
        LET r == auth("Udp", tr.Udp, o) IN
        /\ Exchanged("Udp", r, o)
        /\ authAck' = auth_ack(o)
        /\ IF r.res.ok
           THEN /\ ConnectReturns(Ok("Udp"))
                /\ transport' = "Udp"
                /\ UNCHANGED auth_error
           ELSE /\ auth_error' = r.res.err
                /\ Goto("udp_auth_failed")
                /\ UNCHANGED <<rv, transport, chosen>>
    /\ UNCHANGED <<open, fetch, tcp_error, udp_error, connect_ack>>
    /\ UNCHANGED <<cmdVars, syncVars>>

\* After a failed UDP auth: udp.disconnect(), then the authentication error.
UdpAuthFailed ==
    /\ pc = "udp_auth_failed"
    /\ \E o \in Outcomes("Udp") :
        Disconnected("Udp", disconnect("Udp", tr.Udp, o), o)
    /\ ConnectReturns(Err(auth_failure(auth_error)))
    /\ UNCHANGED <<transport, fetch, tcp_error, udp_error, auth_error, authAck, connect_ack>>
    /\ UNCHANGED <<cmdVars, syncVars>>

\* ------------------------------------ tcp.rs / udp.rs: the streaming read
\* The first response to CMD_DATA_WRRQ: its code, the inner length (4 is
\* shorter than a header, 8 a bare header, 13 a header and a payload that
\* holds the size field) and n, the records of a CMD_DATA response or the
\* total_packets that the declared size of a PREPARE_DATA response makes.
FirstCmds == {CMD_DATA, CMD_PREPARE_DATA, CMD_ACK_OK, CMD_ACK_UNAUTH, CMD_REG_EVENT}
FirstResponses(k) ==
    {f \in [fail : {"none"}, cmd : FirstCmds \cap env.first, len : {4, 8, 13} \cap env.flens,
            n : 0..(IF MaxRecords > env.chunks THEN MaxRecords ELSE env.chunks)] :
        /\ f.n <= (IF f.cmd = CMD_DATA THEN MaxRecords ELSE env.chunks)
        /\ (f.len < 13 => f.n = 0)
        \* the TCP read loop reads on until 16 bytes (envelope and header) are in
        /\ (k = "Tcp" => f.len >= 8)}
FirstOutcomes(k) ==
    [fail : Failures(k), cmd : {0}, len : {0}, n : {0}] \cup FirstResponses(k)

\* The message of a failed first exchange of read_with_buffer.
RequestError(k, f) ==
    CASE f = "timeout" -> <<"Timeout receiving data request response">>
      [] f = "closed" -> <<"Connection closed during data request">>
      [] OTHER -> ExchangeError(k, f)

\* The CMD_DATA_RDY packets for chunks 1..cnt, built after obj.
chunk_requests(k, obj, cnt) ==
    [i \in 1..cnt |->
        packet(k, [obj EXCEPT !.reply_id = (obj.reply_id + i) % U16], CMD_DATA_RDY)]

\* read_with_buffer up to the last chunk request, with first outcome o and
\* the w-th chunk request write failing (w = 0: none fails).  next tells how
\* it goes on: "ok" (the dataset is complete), "recv" (chunks are awaited) or
\* "err".  ZKTcp builds every request before it writes the first, ZKUdp
\* builds and writes one at a time.
read_with_buffer(k, obj, o, w) ==
    LET b == [obj EXCEPT !.reply_id = (@ + 1) % U16]
        rq == <<packet(k, b, CMD_DATA_WRRQ)>>
        stop(e) == [obj |-> b, sent |-> rq, next |-> "err", res |-> Err(e),
                    chunks |-> 0]
    IN
    IF ~b.stream
    THEN [obj |-> b, sent |-> <<>>, next |-> "err", chunks |-> 0,
          res |-> Err(<<IF k = "Tcp" THEN "TCP not connected" ELSE "UDP not connected">>)]
    ELSE IF o.fail # "none" THEN stop(RequestError(k, o.fail))
    ELSE IF o.len < 8 THEN stop(<<"Response too short">>)
    ELSE IF o.cmd = CMD_DATA
    THEN [obj |-> b, sent |-> rq, next |-> "ok", chunks |-> 0,
          res |-> Ok([recs |-> o.n, small |-> TRUE])]
    ELSE IF o.cmd \in {CMD_ACK_OK, CMD_PREPARE_DATA}
    THEN IF o.len - 8 < 5 THEN stop(<<"Prepare data response too short">>)
         ELSE LET total_packets == o.n
                  written == IF w = 0 THEN total_packets ELSE w
                  built == IF k = "Tcp" THEN total_packets ELSE written
                  after == [b EXCEPT !.reply_id = (@ + built) % U16]
              IN  [obj |-> after,
                   sent |-> rq \o chunk_requests(k, b, written),
                   chunks |-> total_packets,
                   next |-> IF w # 0 THEN "err"
                            ELSE IF total_packets = 0 THEN "ok" ELSE "recv",
                   res |-> IF w # 0
                           THEN Err(<<IF k = "Tcp" THEN "TCP write chunk request failed:"
                                      ELSE "UDP send chunk request failed:",
                                      OsErrorText(IF k = "Tcp" THEN "pipe" ELSE "refused")>>)
                           ELSE Ok([recs |-> 0, small |-> FALSE])]
    ELSE stop(<<"Unexpected command in data response:", ToString(o.cmd), "(",
                command_name(o.cmd), ")">>)

\* Outcomes of the chunk-receive phase: every chunk arrived, carrying n
\* records in all, or the phase failed with r packets still to come.
ReceiveOutcomes(k, chunks) ==
    [fail : {"none"}, n : 0..MaxRecords, r : {0}]
    \cup [fail : Failures(k) \ {"write_pipe", "write_refused"}, n : {0}, r : 1..chunks]

ReceiveError(k, o) ==
    CASE o.fail = "timeout" /\ k = "Tcp" ->
            <<"Timeout receiving chunk data,", ToString(o.r), "packets remain">>
      [] o.fail = "timeout" /\ k = "Udp" ->
            <<"Timeout receiving UDP chunk, got", "bytes">>
      [] o.fail = "closed" -> <<"Connection closed during chunk transfer">>
      [] o.fail = "read_reset" -> <<"TCP read chunk failed:", OsErrorText("reset")>>
      [] o.fail = "read_refused" -> <<"UDP recv chunk failed:", OsErrorText("refused")>>

\* The chunk-receive phase of read_with_buffer.
receive_chunks(k, o) ==
    IF o.fail = "none" THEN Ok([recs |-> o.n, small |-> FALSE])
    ELSE Err(ReceiveError(k, o))


\* ------------------------------------- client.rs: operations of a ZKClient
Counts == [user_count : 0..MaxRecords, log_count : 0..MaxRecords]
NoFetch == [req |-> "none", freed |-> TRUE, chunks |-> 0, recs |-> 0]

\* The transport object an operation of the client goes to.
active(tp) == tp

\* ZKClient::get_device_info
ClientGetDeviceInfo ==
    /\ pc = "get_device_info"
    /\ IF transport = "None"
       THEN /\ Return(Err(<<"Not connected">>))
            /\ UNCHANGED <<tr, wire, seenUnauth>>
       ELSE \E o \in Outcomes(active(transport)), counts \in Counts :
            LET r == get_info(active(transport), tr[active(transport)], o, counts) IN
            /\ Exchanged(active(transport), r, o)
            /\ Return(r.res)
    /\ UNCHANGED <<transport, open, fetch>>
    /\ UNCHANGED <<cmdVars, syncVars, connVars>>

\* ZKClient::get_users / get_attendance_logs, up to the first free_data of
\* get_users / get_attendances of the transport.
FetchFree1 ==
    /\ pc \in {"get_users", "get_attendance_logs"}
    /\ IF transport = "None"
       THEN /\ Return(Err(<<"Not connected">>))
            /\ UNCHANGED <<tr, wire, seenUnauth, fetch>>
       ELSE \E o \in Outcomes(active(transport)) :
            LET r == free_data(active(transport), tr[active(transport)], o) IN
            /\ Exchanged(active(transport), r, o)
            /\ fetch' = [NoFetch EXCEPT !.req = pc, !.freed = r.res.ok]
            /\ Goto("wrrq")
            /\ UNCHANGED rv
    /\ UNCHANGED <<transport, open>>
    /\ UNCHANGED <<cmdVars, syncVars, connVars>>

\* read_with_buffer: the request, the first response and the chunk requests.
\* An error leaves get_users / get_attendances at once (the `?`).
FetchRequest ==
    /\ pc = "wrrq"
    /\ \E o \in FirstOutcomes(transport), w \in 0..env.chunks :
        LET r == read_with_buffer(transport, tr[transport], o, w) IN
        /\ w <= (IF o.fail = "none" /\ o.cmd \in {CMD_ACK_OK, CMD_PREPARE_DATA} /\ o.len >= 13
                 THEN o.n ELSE 0)
        /\ w > 0 => (IF transport = "Tcp" THEN "write_pipe" ELSE "write_refused") \in env.fail
        /\ tr' = [tr EXCEPT ![transport] = r.obj]
        /\ wire' = wire \o r.sent
        /\ seenUnauth' = (seenUnauth \/ (r.sent # <<>> /\ o.fail = "none"
                                          /\ o.len >= 8 /\ o.cmd = CMD_ACK_UNAUTH))
        /\ CASE r.next = "err" -> /\ Return(r.res)
                                  /\ fetch' = NoFetch
             [] r.next = "ok" -> /\ Goto("free2")
                                 /\ fetch' = [fetch EXCEPT !.recs = r.res.val.recs]
                                 /\ UNCHANGED rv
             [] r.next = "recv" -> /\ Goto("recv")
                                   /\ fetch' = [fetch EXCEPT !.chunks = r.chunks]
                                   /\ UNCHANGED rv
    /\ UNCHANGED <<transport, open>>
    /\ UNCHANGED <<cmdVars, syncVars, connVars>>

\* read_with_buffer: the chunk-receive phase.
FetchReceive ==
    /\ pc = "recv"
    /\ \E o \in ReceiveOutcomes(transport, fetch.chunks) :
        LET res == receive_chunks(transport, o) IN
        IF res.ok
        THEN /\ Goto("free2")
             /\ fetch' = [fetch EXCEPT !.recs = res.val.recs]
             /\ UNCHANGED rv
        ELSE /\ Return(res)
             /\ fetch' = NoFetch
    /\ UNCHANGED <<transport, tr, open, wire, seenUnauth>>
    /\ UNCHANGED <<cmdVars, syncVars, connVars>>

\* A faulty variant: the error of the second free_data is returned.
FetchFree2_checked ==
    /\ pc = "free2"
    /\ \E o \in Outcomes(transport) :
        LET r == free_data(transport, tr[transport], o) IN
        /\ Exchanged(transport, r, o)
        /\ Return(IF r.res.ok THEN Ok(fetch.recs) ELSE r.res)
    /\ fetch' = NoFetch
    /\ UNCHANGED <<transport, open>>
    /\ UNCHANGED <<cmdVars, syncVars, connVars>>

\* The second free_data, then the records decoded from the dataset and
\* mapped by ZKClient::get_users / get_attendance_logs (no range filter).
FetchFree2 ==
    /\ pc = "free2"
    /\ \E o \in Outcomes(transport) :
        LET r == free_data(transport, tr[transport], o) IN
        /\ Exchanged(transport, r, o)
    /\ Return(Ok(fetch.recs))
    /\ fetch' = NoFetch
    /\ UNCHANGED <<transport, open>>
    /\ UNCHANGED <<cmdVars, syncVars, connVars>>

\* ZKClient::disconnect: the transport is taken out of the client and
\* disconnected; a client without transport returns Ok at once.
ClientDisconnect ==
    /\ pc = "disconnect"
    /\ IF transport = "None"
       THEN UNCHANGED <<tr, open, wire, seenUnauth>>
       ELSE \E o \in Outcomes(transport) :
            Disconnected(transport, disconnect(transport, tr[transport], o), o)
    /\ transport' = "None"
    /\ Return(Ok(0))
    /\ UNCHANGED fetch
    /\ UNCHANGED <<cmdVars, syncVars, connVars>>

\* A ZKClient goes out of scope: Drop closes the socket of the transport it
\* still owns; nothing is sent.
drop_client(tp) ==
    /\ transport' = "None"
    /\ IF tp = "None"
       THEN UNCHANGED <<tr, open>>
       ELSE /\ tr' = [tr EXCEPT ![tp] = drop(tr[tp]).obj]
            /\ open' = [open EXCEPT ![tp] = @ - drop(tr[tp]).closed]


\* ------------------------------------------------ commands.rs: validation
\* ip.split('.') gives the parts; each must parse as u8.
validate_ip(ip) ==
    IF Len(ip) # 4 THEN Err(<<"Invalid IP address:", "IP">>)
    ELSE IF \E i \in 1..Len(ip) : ~parse_unsigned(ip[i], U8_MAX).ok
    THEN Err(<<"Invalid IP address:", "IP">>)
    ELSE Ok(0)

validate_port(port) ==
    IF port = 0 THEN Err(<<"Port cannot be 0">>) ELSE Ok(0)

validate_config(cfg) ==
    IF ~validate_ip(cfg.ip).ok THEN validate_ip(cfg.ip)
    ELSE IF ~validate_port(cfg.port).ok THEN validate_port(cfg.port)
    ELSE Ok(0)

\* ----------------------------------------------------------------- inputs
Some(s) == [some |-> TRUE, s |-> s]
None == [some |-> FALSE, s |-> <<>>]

GoodIp == << <<"1", "0">>, <<"0">>, <<"0">>, <<"7">> >>
\* "10.0.0.7"; "10.0.7"; "10.0.256.7"; "10..0.7"; "+10.0.0.7"
Ips == {GoodIp,
        << <<"+", "1", "0">>, <<"0">>, <<"0">>, <<"7">> >>,
        << <<"1", "0">>, <<"0">>, <<"7">> >>,
        << <<"1", "0">>, <<"0">>, <<"2", "5", "6">>, <<"7">> >>,
        << <<"1", "0">>, <<>>, <<"0">>, <<"7">> >>}
Ports == {0, 4370}

\* comm_key: absent, empty, "0", not a number, negative, "00", numbers, a
\* number with a sign, u32::MAX and one past it.
CommKeys == {None, Some(<<>>), Some(<<"0">>), Some(<<"k">>), Some(<<"-", "1">>),
             Some(<<"0", "0">>), Some(<<"5">>), Some(<<"+", "7">>),
             Some(<<"4", "2", "9", "4", "9", "6", "7", "2", "9", "5">>),
             Some(<<"4", "2", "9", "4", "9", "6", "7", "2", "9", "6">>)}
\* The keys sync_device_all is run with.
SyncKeys == {None, Some(<<"5">>)}

\* Everything the code distinguishes may happen.
FullEnv ==
    [dial |-> {"ok", "timeout", "refused", "noroute"},
     bind |-> {"ok", "noroute"},
     fail |-> {"write_pipe", "write_refused", "timeout", "read_reset", "read_refused",
               "closed"},
     sids |-> 1..MaxSessionId,
     cmds |-> {CMD_ACK_OK, CMD_ACK_UNAUTH, CMD_REG_EVENT}, lens |-> {1, 4, 8, 84},
     first |-> {CMD_DATA, CMD_PREPARE_DATA, CMD_ACK_OK, CMD_ACK_UNAUTH, CMD_REG_EVENT},
     flens |-> {4, 8, 13}, chunks |-> MaxChunks]
\* The runs of sync_device_all: the TCP port refuses or accepts, an exchange
\* succeeds or times out, the device answers CMD_ACK_OK or CMD_ACK_UNAUTH and
\* serves a dataset at once or in chunks.
SyncEnv ==
    [dial |-> {"ok", "refused"},
     bind |-> {"ok"},
     fail |-> {"timeout"},
     sids |-> {1},
     cmds |-> {CMD_ACK_OK, CMD_ACK_UNAUTH}, lens |-> {8},
     first |-> {CMD_DATA, CMD_PREPARE_DATA}, flens |-> {13}, chunks |-> MaxChunks]

\* The runs of a direct user of ZKClient.
ApiEnv ==
    [dial |-> {"ok", "refused"},
     bind |-> {"ok", "noroute"},
     fail |-> {"timeout", "write_pipe", "write_refused"},
     sids |-> 1..MaxSessionId,
     cmds |-> {CMD_ACK_OK, CMD_ACK_UNAUTH}, lens |-> {4, 8},
     first |-> {CMD_DATA, CMD_PREPARE_DATA, CMD_ACK_UNAUTH}, flens |-> {8, 13},
     chunks |-> MaxApiChunks]

\* The keys a direct user of ZKClient connects with.
ApiKeys == {None, Some(<<"5">>)}
ApiConfigs == [ip : {GoodIp}, port : {4370}, comm_key : ApiKeys]

Configs == [ip : Ips, port : Ports, comm_key : CommKeys]
SyncConfigs == [ip : Ips, port : Ports, comm_key : SyncKeys]

\* The SyncOptions get_attendance_logs is called with: none, or a mode with
\* dates that are absent, date-only or full.
NoOptions == [some |-> FALSE, mode |-> "all", start_date |-> None, end_date |-> None]
date_text(year, month, day) == pad(year, 4) \o <<"-">> \o pad(month, 2) \o <<"-">> \o pad(day, 2)
Noon == <<"T", "1", "2", ":", "0", "0", ":", "0", "0">>
OptionsSet ==
    {NoOptions} \cup
    [some : {TRUE}, mode : {"all", "range"},
     start_date : {None, Some(date_text(2024, 1, 15)), Some(date_text(2024, 1, 15) \o Noon)},
     end_date : {None, Some(date_text(2024, 1, 15)), Some(date_text(2024, 1, 16)),
                 Some(date_text(2024, 1, 15) \o Noon)}]

\* The packed time the device stores for a date-time: days * 86400 + secs,
\* with 86400 = 2^16 + 20864, as a u32.
zk_time(year, month, day, hour, minute, second) ==
    LET days == ((year - 2000) * 12 + (month - 1)) * 31 + (day - 1)
        secs == (hour * 60 + minute) * 60 + second
        x == days * 20864 + secs
    IN  [hi |-> days + x \div U16, lo |-> x % U16]

\* The timestamps of fetched records: those parse_zk_time gives for times
\* around 2024-01-15, and one with a fraction of a second.
Timestamps ==
    {parse_zk_time(t) : t \in {zk_time(2024, 1, 14, 23, 59, 59), zk_time(2024, 1, 15, 0, 0, 0),
                               zk_time(2024, 1, 15, 9, 0, 0), zk_time(2024, 1, 15, 23, 59, 59),
                               zk_time(2024, 1, 16, 0, 0, 0)}}
    \cup {SubSeq(parse_zk_time(zk_time(2024, 1, 14, 23, 59, 59)), 1, 20)
           \o <<"9", "9", "9", "Z">>}
Fetched == UNION {[1..n -> Timestamps] : n \in 0..MaxFetched}

\* The packed times parse_zk_time is called with: the first and the last
\* moment of days at the start, in the middle and past the end of months
\* (days the month does not have among them), up to the year 2100 whose
\* packed times lie above 2^31, the time 621355968 and the largest u32.
Times ==
    {zk_time(y, mo, d, hms[1], hms[2], hms[3]) :
        y \in {2000, 2019, 2024, 2100}, mo \in {1, 2, 4, 12}, d \in {1, 28, 29, 30, 31},
        hms \in {<<0, 0, 0>>, <<23, 59, 59>>}}
    \cup {[hi |-> 9481, lo |-> 9152], zk_time(2019, 7, 6, 0, 0, 0),
          [hi |-> 65535, lo |-> 65535]}

\* ------------------ tcp.rs / udp.rs: get_users / get_attendances step by step
MAX_CHUNK == 65472
\* Socket reads of the chunk-receive phase of one streaming read.
MaxReads == 3

\* The bytes of a buffer are kept as runs <<[src, part, n], ...>>: n bytes
\* taken from a packet whose command id is src; for the data of a chunk,
\* part is the index of the chunk.
RECURSIVE byte_len(_)
byte_len(b) == IF b = <<>> THEN 0 ELSE Head(b).n + byte_len(Tail(b))

\* extend_from_slice with n bytes of a packet of command src.
extend(b, src, part, n) ==
    IF n = 0 THEN b
    ELSE IF b # <<>> /\ b[Len(b)].src = src /\ b[Len(b)].part = part
    THEN [b EXCEPT ![Len(b)].n = @ + n]
    ELSE Append(b, [src |-> src, part |-> part, n |-> n])

RECURSIVE extend_from(_, _)
extend_from(a, b) ==
    IF b = <<>> THEN a
    ELSE extend_from(extend(a, Head(b).src, Head(b).part, Head(b).n), Tail(b))

RECURSIVE slice_from(_, _)
\* b[n..]
slice_from(b, n) ==
    IF n = 0 \/ b = <<>> THEN b
    ELSE IF Head(b).n <= n THEN slice_from(Tail(b), n - Head(b).n)
    ELSE <<[Head(b) EXCEPT !.n = @ - n]>> \o Tail(b)

\* The locals remain, total_packets and chunk_size of read_with_buffer.
remain(size) == size % MAX_CHUNK
\* A faulty count: one more than the whole chunks.
total_packets_plus_one(size) == (size \div MAX_CHUNK) + 1
total_packets(size) == (size + MAX_CHUNK - 1) \div MAX_CHUNK
\* A faulty length: the last chunk is asked for in full.
chunk_size_full(i, size) == MAX_CHUNK
chunk_size(i, size) ==
    IF i = total_packets(size) - 1 /\ remain(size) > 0 THEN remain(size) ELSE MAX_CHUNK

\* What io records: a packet written, with its wire reply id and, for
\* CMD_DATA_RDY, start and size; or a socket read made for the reply to c,
\* with the reply id of the response it delivered (0: none, or a packet of
\* the chunk-receive phase).
written(c, obj, start, size) ==
    [op |-> "write", c |-> c, rid |-> wire_reply_id(obj.reply_id), start |-> start,
     size |-> size]
read_for(c, rid) == [op |-> "read", c |-> c, rid |-> rid, start |-> 0, size |-> 0]

\* A faulty build_chunk_request: the reply id is not advanced.
build_chunk_request_same_id(obj, start, size) ==
    [obj |-> obj, pkt |-> written(CMD_DATA_RDY, obj, start, size)]

\* build_chunk_request: the object afterwards and the packet.
build_chunk_request(obj, start, size) ==
    LET b == [obj EXCEPT !.reply_id = (@ + 1) % U16] IN
    [obj |-> b, pkt |-> written(CMD_DATA_RDY, b, start, size)]

RECURSIVE build_all(_, _, _)
\* ZKTcp: the loop that builds the requests i .. total_packets - 1.
build_all(obj, i, size) ==
    IF i >= total_packets(size) THEN [obj |-> obj, pkts |-> <<>>]
    ELSE LET r == build_chunk_request(obj, i * MAX_CHUNK, chunk_size(i, size))
             rest == build_all(r.obj, i + 1, size)
         IN  [obj |-> rest.obj, pkts |-> <<r.pkt>> \o rest.pkts]

\* A received packet: command id c, session id field sid, payload length n
\* after the 8-byte header, and for CMD_DATA the chunk (part) it carries;
\* hdr is false for a datagram shorter than a header.  Over TCP, len is the
\* length field of the envelope, and a socket read delivers the bytes
\* from .. to of the packet's 8 + len bytes.
inner(c, sid, part, n) ==
    [c |-> c, sid |-> sid, part |-> part, n |-> n, hdr |-> TRUE,
     len |-> 8 + n, from |-> 0, to |-> 16 + n]

RECURSIVE read_len(_)
\* The number of bytes a TCP read delivered.
read_len(fs) == IF fs = <<>> THEN 0 ELSE Head(fs).to - Head(fs).from + read_len(Tail(fs))

\* The 16-bit word at byte `at` of an enveloped packet: the length field,
\* the command id, the session id field; the payloads of the modelled
\* device hold zero bytes.
word(f, at) ==
    CASE at = 4 -> f.len
      [] at = 8 -> f.c
      [] at = 12 -> f.sid
      [] OTHER -> 0

check_not_event_udp(d) == d.hdr /\ d.c = CMD_REG_EVENT
\* check_not_event_tcp on the bytes of one read: the envelope is removed
\* when the read begins with one, then bytes 0..2 and 4..6 are tested.
check_not_event_tcp(read) ==
    LET f == Head(read)
        enveloped == f.from = 0 /\ read_len(read) >= 8
        base == IF enveloped THEN 8 ELSE f.from
        data_len == IF enveloped THEN read_len(read) - 8 ELSE read_len(read)
    IN  /\ data_len >= 6
        /\ word(f, base + 4) = 1
        /\ word(f, base) = CMD_REG_EVENT

\* total_buffer followed by the bytes of a read: the read goes on where
\* the bytes held end.
joined(total_buffer, read) ==
    IF total_buffer = <<>> THEN read
    ELSE <<[Head(read) EXCEPT !.from = @ - byte_len(total_buffer)]>> \o Tail(read)

RECURSIVE left_over(_)
\* The bytes left in total_buffer.
left_over(fs) ==
    IF fs = <<>> THEN <<>>
    ELSE extend_from(<<[src |-> Head(fs).c, part |-> Head(fs).part,
                        n |-> Head(fs).to - Head(fs).from]>>, left_over(Tail(fs)))

RECURSIVE process_packets(_, _)
\* ZKTcp: the loop over the complete packets of total_buffer (fs).  The
\* slice total_buffer[16..8 + packet_length] panics when its end is below 16.
\* A packets_remaining below 0 stands for the usize that wrapped around.
process_packets(l, fs) ==
    IF read_len(fs) < 8 THEN [l EXCEPT !.total_buffer = left_over(fs)]
    ELSE LET f == Head(fs)
             packet_length == f.len
             rtb == extend(l.real_total_buffer, f.c, f.part, packet_length - 8)
             expected_size ==
                 IF l.packets_remaining > 1 \/ l.packets_remaining < 0
                 THEN MAX_CHUNK + 8 ELSE l.remain + 8
         IN  IF read_len(fs) < 8 + packet_length THEN [l EXCEPT !.total_buffer = left_over(fs)]
             ELSE IF 8 + packet_length < 16
             THEN [l EXCEPT !.total_buffer = left_over(fs), !.panic = "slice"]
             ELSE IF byte_len(rtb) >= expected_size
             THEN process_packets(
                    [l EXCEPT !.reply_data = IF byte_len(rtb) > 8
                                             THEN extend_from(@, slice_from(rtb, 8)) ELSE @,
                              !.real_total_buffer = <<>>,
                              !.packets_remaining = @ - 1], Tail(fs))
             ELSE process_packets([l EXCEPT !.real_total_buffer = rtb], Tail(fs))

\* A faulty pass: the payload of a CMD_PREPARE_DATA datagram is taken too.
receive_datagram_with_info(l, d) ==
    IF check_not_event_udp(d) THEN l
    ELSE IF ~d.hdr THEN l
    ELSE IF d.c \in {CMD_DATA, CMD_PREPARE_DATA}
    THEN [l EXCEPT !.total_buffer = extend(@, d.c, d.part, d.n)]
    ELSE l

\* ZKUdp: one pass of the receive loop with the datagram d.
receive_datagram(l, d) ==
    IF check_not_event_udp(d) THEN l
    ELSE IF ~d.hdr THEN l
    ELSE IF d.c = CMD_DATA THEN [l EXCEPT !.total_buffer = extend(@, d.c, d.part, d.n)]
    ELSE l

\* The condition of the receive loop.
receiving(k, l) ==
    IF k = "Tcp" THEN l.packets_remaining # 0 ELSE byte_len(l.total_buffer) < l.size

\* The records get_users / get_attendances decode from a dataset of n bytes.
record_size(k, op, is_small) ==
    IF op = "get_users" THEN (IF k = "Tcp" THEN 72 ELSE 28)
    ELSE IF k = "Tcp" THEN 40
    ELSE IF is_small THEN 8 ELSE 16
records_in(k, op, is_small, n) ==
    IF n < 4 THEN 0 ELSE (n - 4) \div record_size(k, op, is_small)

\* No bulk read is looked at.  Besides the locals of read_with_buffer, rwb
\* holds what the run is judged by: the payload length of the packet that
\* was the first response (first_n), the reply id of a CMD_FREE_DATA reply
\* that had not arrived when its read timed out (late), the kind of
\* device, how far its stream was delivered (sent: packets, and bytes of
\* the next one), the datagrams received (received), the time passed since
\* the receive loop began (now, in units of 30 s), and how a panic ended
\* the read.
NoTransport ==
    [kind |-> "None", op |-> "none", stream |-> FALSE, session_id |-> 0, reply_id |-> 0]
NoRead ==
    [first |-> "none", size |-> 0, remain |-> 0, total_packets |-> 0, i |-> 0,
     chunk_requests |-> <<>>, packets_remaining |-> 0, total_buffer |-> <<>>,
     real_total_buffer |-> <<>>, reply_data |-> <<>>, reads |-> 0,
     deadline |-> 0, now |-> 0, panic |-> "none",
     first_n |-> 0, late |-> 0, device |-> "any", sent |-> [q |-> 0, o |-> 0],
     received |-> <<>>,
     data |-> <<>>, res |-> NoResult]

\* The declared sizes of a dataset, and what the device sends.
Sizes == {0, 20, MAX_CHUNK - 1, MAX_CHUNK, MAX_CHUNK + 1, 2 * MAX_CHUNK, 2 * MAX_CHUNK + 20}
Transports ==
    [kind : Kinds, op : {"get_users", "get_attendances"}, stream : {TRUE},
     session_id : {4660}, reply_id : {1}]
\* The index of the chunk the device is serving.
serving(l) ==
    IF l.packets_remaining >= 1 /\ l.packets_remaining <= l.total_packets
    THEN l.total_packets - l.packets_remaining ELSE 0
\* A device of kind "any" sends, in any order: the packets of a chunk
\* reply (over UDP the data of any chunk, again and out of order),
\* real-time events whose session id field is 1 or the session id, over
\* UDP a datagram shorter than a header, and over TCP an envelope whose
\* length field is 4.
Packets(k, l) ==
    {inner(CMD_PREPARE_DATA, 4660, 0, 8),
     inner(CMD_ACK_OK, 4660, 0, 0),
     inner(CMD_REG_EVENT, 1, 0, 32),
     inner(CMD_REG_EVENT, 4660, 0, 32)}
    \cup (IF k = "Tcp"
          THEN {inner(CMD_DATA, 4660, serving(l), chunk_size(serving(l), l.size)),
                [inner(0, 0, 0, 0) EXCEPT !.len = 4, !.to = 12]}
          ELSE {inner(CMD_DATA, 4660, j, chunk_size(j, l.size)) :
                    j \in 0..(l.total_packets - 1)}
               \cup {[inner(0, 0, 0, 0) EXCEPT !.hdr = FALSE]})

\* A device of kind "orderly" answers the chunk requests in order, each
\* with a CMD_PREPARE_DATA packet of 8 payload bytes and a CMD_DATA packet
\* with the data of the chunk.
Stream(size) ==
    [j \in 1..(2 * total_packets(size)) |->
        IF j % 2 = 1 THEN inner(CMD_PREPARE_DATA, 4660, (j - 1) \div 2, 8)
        ELSE inner(CMD_DATA, 4660, (j - 2) \div 2, chunk_size((j - 2) \div 2, size))]

\* The packets one read of an orderly stream may span, and the places
\* inside a packet where a read may end: in the envelope, or after the
\* header.
MaxBurst == 2
Cuts == {0, 4, 16}

\* The bytes of an orderly stream between two places.
pieces(st, a, b) ==
    [j \in 1..(b.q - a.q + (IF b.o > 0 THEN 1 ELSE 0)) |->
        LET f == st[a.q + j] IN
        [f EXCEPT !.from = IF j = 1 THEN a.o ELSE 0,
                  !.to = IF a.q + j - 1 = b.q THEN b.o ELSE f.to]]

\* What one socket read of the chunk-receive phase delivers, and how far
\* the stream is delivered after it.  From a device of kind "any" a read
\* brings one packet, or over TCP a packet followed by a data packet or by
\* an event.
ChunkReads(k, l) ==
    IF k = "Tcp" /\ l.device = "orderly"
    THEN LET st == Stream(l.size) IN
         {[bytes |-> pieces(st, l.sent, b), sent |-> b] :
            b \in {c \in [q : l.sent.q..(l.sent.q + MaxBurst), o : Cuts] :
                     /\ c.q <= Len(st)
                     /\ (c.q = Len(st) => c.o = 0)
                     /\ (c.q > l.sent.q \/ c.o > l.sent.o)}}
    ELSE {[bytes |-> <<f>>, sent |-> l.sent] : f \in Packets(k, l)}
         \cup (IF k = "Tcp"
               THEN {[bytes |-> <<f, g>>, sent |-> l.sent] :
                        f \in Packets(k, l),
                        g \in {h \in Packets(k, l) : h.c = CMD_DATA \/ h.sid = 1}}
               ELSE {})

\* The arguments create_udp_header / create_tcp_header are called with.
NoHeader == [command |-> 0, session_id |-> 0, reply_id |-> 0, data |-> <<>>]
HeaderArgs ==
    [command : {CMD_CONNECT, CMD_AUTH, CMD_DATA_WRRQ},
     session_id : {0, 1, 4660, 65535},
     reply_id : {0, 1, 65533, 65534, 65535},
     data : {<<>>, <<5>>, <<1, 9>>, <<255, 255, 255>>, <<5, 0, 0, 0>>}]

\* ------------------------------------------------------------------- Init
\* No client exists and no command runs.
Quiet ==
    /\ command = "none"
    /\ config = [ip |-> GoodIp, port |-> 4370, comm_key |-> None]
    /\ env = FullEnv
    /\ stack = <<>>
    /\ rv = NoResult
    /\ transport = "None"
    /\ tr = [Tcp |-> new_transport, Udp |-> new_transport]
    /\ open = [Tcp |-> 0, Udp |-> 0]
    /\ wire = <<>>
    /\ seenUnauth = FALSE
    /\ tcp_error = <<>>
    /\ udp_error = <<>>
    /\ auth_error = <<>>
    /\ chosen = "None"
    /\ authAck = "none"
    /\ connect_ack = NoAck
    /\ fetch = NoFetch
    /\ users = 0
    /\ users_via = "None"
    /\ logs = 0
    /\ last_err = <<>>
    /\ attempt = 0
    /\ cmd_attempt = 0
    /\ last_error = <<>>
    /\ held = NoResult
    /\ calls = 0
    /\ result = NoResult

\* No function is checked on its own.
NoFilter == options = NoOptions /\ raw_records = <<>> /\ filtered = <<>>
NoEncode == header_args = NoHeader /\ buf = <<>>
NoParse == time = u32(0) /\ iso = <<>>
NoStream == zk = NoTransport /\ rwb = NoRead /\ io = <<>>
NoCall == NoFilter /\ NoEncode /\ NoParse /\ NoStream

Init == pc = "idle" /\ Quiet /\ NoCall

netVars == <<transport, tr, open, wire, seenUnauth, fetch>>

\* ------------------------------------------ commands.rs: command handlers
\* A command starts: validate_config, and on a valid config its first call.
Invoke(c, cfg, e, first, ret) ==
    /\ pc = "idle"
    /\ command' = c
    /\ config' = cfg
    /\ env' = e
    /\ IF validate_config(cfg).ok
       THEN /\ pc' = first
            /\ stack' = ret
            /\ result' = result
       ELSE /\ pc' = "done"
            /\ stack' = <<>>
            /\ result' = validate_config(cfg)
    /\ UNCHANGED <<rv, cmd_attempt, last_error, held, calls, callVars>>
    /\ UNCHANGED <<netVars, syncVars, connVars>>

get_device_info_cmd(cfg) == Invoke("get_device_info", cfg, FullEnv, "connect", <<"cmd_connected">>)
get_device_users(cfg) == Invoke("get_device_users", cfg, FullEnv, "connect", <<"cmd_connected">>)
get_attendance_logs_cmd(cfg) == Invoke("get_attendance_logs", cfg, FullEnv, "connect", <<"cmd_connected">>)
test_device_connection(cfg) == Invoke("test_device_connection", cfg, FullEnv, "connect", <<"tc_connected">>)
sync_device_all(cfg) == Invoke("sync_device_all", cfg, SyncEnv, "sda_loop", <<>>)

\* The client operation of a one-session command.
operation_of(c) ==
    CASE c = "get_device_info" -> "get_device_info"
      [] c = "get_device_users" -> "get_users"
      [] c = "get_attendance_logs" -> "get_attendance_logs"

\* get_device_info / get_device_users / get_attendance_logs after
\* ZKClient::connect(&config).await?
CmdConnected ==
    /\ pc = "cmd_connected"
    /\ IF rv.ok
       THEN /\ Call(operation_of(command), "cmd_fetched")
            /\ UNCHANGED result
       ELSE /\ pc' = "done"
            /\ stack' = <<>>
            /\ result' = rv
    /\ UNCHANGED <<callVars, command, config, env, rv, cmd_attempt, last_error, held, calls>>
    /\ UNCHANGED <<netVars, syncVars, connVars>>

\* ... after the fetch: its result is kept and the client disconnected.
CmdFetched ==
    /\ pc = "cmd_fetched"
    /\ held' = rv
    /\ Call("disconnect", "cmd_disconnected")
    /\ UNCHANGED <<callVars, command, config, env, rv, cmd_attempt, last_error, calls, result>>
    /\ UNCHANGED <<netVars, syncVars, connVars>>

\* ... after the disconnect: the kept result is returned, the client dropped.
CmdDisconnected ==
    /\ pc = "cmd_disconnected"
    /\ result' = held
    /\ held' = NoResult
    /\ pc' = "done"
    /\ stack' = <<>>
    /\ drop_client(transport)
    /\ UNCHANGED <<callVars, command, config, env, rv, cmd_attempt, last_error, calls>>
    /\ UNCHANGED <<wire, seenUnauth, fetch>>
    /\ UNCHANGED <<syncVars, connVars>>

\* ------------------------------------ client.rs: ZKClient::test_connection
TestResult(success, info, error) ==
    Ok([success |-> success, device_info |-> info, error |-> error])

TcConnected ==
    /\ pc = "tc_connected"
    /\ IF rv.ok
       THEN /\ Call("get_device_info", "tc_info")
            /\ UNCHANGED result
       ELSE /\ pc' = "done"
            /\ stack' = <<>>
            /\ result' = TestResult(FALSE, None, format_error(rv.err))
    /\ UNCHANGED <<callVars, command, config, env, rv, cmd_attempt, last_error, held, calls>>
    /\ UNCHANGED <<netVars, syncVars, connVars>>

\* The info, or the zeroed placeholder when get_device_info failed.
TcInfo ==
    /\ pc = "tc_info"
    /\ held' = IF rv.ok THEN rv ELSE Ok([user_count |-> 0, log_count |-> 0])
    /\ Call("disconnect", "tc_disconnected")
    /\ UNCHANGED <<callVars, command, config, env, rv, cmd_attempt, last_error, calls, result>>
    /\ UNCHANGED <<netVars, syncVars, connVars>>

TcDisconnected ==
    /\ pc = "tc_disconnected"
    /\ result' = TestResult(TRUE, Some(held.val), <<>>)
    /\ held' = NoResult
    /\ pc' = "done"
    /\ stack' = <<>>
    /\ drop_client(transport)
    /\ UNCHANGED <<callVars, command, config, env, rv, cmd_attempt, last_error, calls>>
    /\ UNCHANGED <<wire, seenUnauth, fetch>>
    /\ UNCHANGED <<syncVars, connVars>>


\* ------------------------------------------ client.rs: ZKClient::sync_all
\* for attempt in 0..3
LogAttempts == 3

\* sync_all goes out of scope: its locals are gone.
SyncLocalsGone ==
    users' = 0 /\ users_via' = "None" /\ logs' = 0 /\ last_err' = <<>> /\ attempt' = 0

\* let mut client = Self::connect(config).await?;
SaStart ==
    /\ pc = "sync_all"
    /\ Call("connect", "sa_connected")
    /\ UNCHANGED <<rv, cmdVars, netVars, syncVars, connVars>>

\* The `?` on connect, else client.get_users()
SaConnected ==
    /\ pc = "sa_connected"
    /\ IF rv.ok
       THEN /\ Call("get_users", "sa_users")
            /\ UNCHANGED rv
       ELSE Return(rv)
    /\ UNCHANGED <<cmdVars, netVars, syncVars, connVars>>

\* let users = client.get_users().await?;  then client.disconnect().  On
\* the `?` the client is dropped as sync_all returns.
SaUsers ==
    /\ pc = "sa_users"
    /\ IF rv.ok
       THEN /\ users' = rv.val
            /\ users_via' = transport
            /\ Call("disconnect", "sa_users_closed")
            /\ UNCHANGED <<rv, transport, tr, open>>
       ELSE /\ UNCHANGED <<users, users_via>>
            /\ drop_client(transport)
            /\ Return(rv)
    /\ UNCHANGED <<wire, seenUnauth, fetch, logs, last_err, attempt>>
    /\ UNCHANGED <<cmdVars, connVars>>

\* let mut logs = Vec::new(); let mut last_err = String::new();
SaUsersClosed ==
    /\ pc = "sa_users_closed"
    /\ logs' = 0
    /\ last_err' = <<>>
    /\ attempt' = 0
    /\ Goto("sa_loop")
    /\ UNCHANGED <<rv, users, users_via, cmdVars, netVars, connVars>>

\* The head of the loop: the sleep, then Self::connect(config); after the
\* last attempt, on to the end of sync_all.
SaLoop ==
    /\ pc = "sa_loop"
    /\ IF attempt < LogAttempts
       THEN Call("connect", "sa_reconnected")
       ELSE Goto("sa_end")
    /\ UNCHANGED <<rv, cmdVars, netVars, syncVars, connVars>>

\* match Self::connect(config).await
SaReconnected ==
    /\ pc = "sa_reconnected"
    /\ IF rv.ok
       THEN /\ Call("get_attendance_logs", "sa_logs")
            /\ UNCHANGED <<last_err, attempt>>
       ELSE /\ last_err' = rv.err
            /\ attempt' = attempt + 1
            /\ Goto("sa_loop")
    /\ UNCHANGED <<rv, users, users_via, logs, cmdVars, netVars, connVars>>

\* match reconnected.get_attendance_logs(options).await, and in both arms
\* reconnected.disconnect()
SaLogs ==
    /\ pc = "sa_logs"
    /\ IF rv.ok
       THEN /\ logs' = rv.val
            /\ Call("disconnect", "sa_logs_ok")
            /\ UNCHANGED last_err
       ELSE /\ last_err' = rv.err
            /\ Call("disconnect", "sa_logs_err")
            /\ UNCHANGED logs
    /\ UNCHANGED <<rv, users, users_via, attempt, cmdVars, netVars, connVars>>

\* A faulty variant: the loop is not left after a successful fetch.
SaLogsOk_no_break ==
    /\ pc = "sa_logs_ok"
    /\ last_err' = <<>>
    /\ attempt' = attempt + 1
    /\ Goto("sa_loop")
    /\ UNCHANGED <<rv, users, users_via, logs, cmdVars, netVars, connVars>>

\* A faulty variant: last_err is not cleared after a successful fetch.
SaLogsOk_no_clear ==
    /\ pc = "sa_logs_ok"
    /\ Goto("sa_end")
    /\ UNCHANGED <<rv, users, users_via, logs, last_err, attempt, cmdVars, netVars, connVars>>

\* last_err.clear(); break;
SaLogsOk ==
    /\ pc = "sa_logs_ok"
    /\ last_err' = <<>>
    /\ Goto("sa_end")
    /\ UNCHANGED <<rv, users, users_via, logs, attempt, cmdVars, netVars, connVars>>

\* The failed attempt is over; the next one follows.
SaLogsErr ==
    /\ pc = "sa_logs_err"
    /\ attempt' = attempt + 1
    /\ Goto("sa_loop")
    /\ UNCHANGED <<rv, users, users_via, logs, last_err, cmdVars, netVars, connVars>>

\* "Got {} users but failed to fetch attendance logs: {}"
partial_error(n, e) ==
    <<"Got", ToString(n), "users but failed to fetch attendance logs:">> \o e

\* What sync_all returns after the loop.
sync_all_result(us, ls, le) ==
    IF le # <<>> /\ ls = 0
    THEN Err(partial_error(us, le))
    ELSE Ok([users |-> us, logs |-> ls])

SaEnd ==
    /\ pc = "sa_end"
    /\ Return(sync_all_result(users, logs, last_err))
    /\ SyncLocalsGone
    /\ UNCHANGED <<cmdVars, netVars, connVars>>

\* --------------------------------------- commands.rs: sync_device_all
max_retries == 3

\* for attempt in 0..=max_retries: the backoff sleep, then sync_all
SdaLoop ==
    /\ pc = "sda_loop"
    /\ Call("sync_all", "sda_returned")
    /\ UNCHANGED <<rv, cmdVars, netVars, syncVars, connVars>>

\* A faulty no_retry: only a denial ends the retries.
no_retry_denied_only(e) == contains(e, "denied")

\* The error is not retried: it names authentication or a denial.
no_retry(e) == contains(e, "auth") \/ contains(e, "denied")

\* A faulty variant: one retry more than max_retries.
SdaReturned_one_more ==
    /\ pc = "sda_returned"
    /\ IF rv.ok
       THEN /\ result' = rv
            /\ pc' = "done"
            /\ UNCHANGED <<last_error, cmd_attempt>>
       ELSE /\ last_error' = rv.err
            /\ IF no_retry(rv.err)
               THEN /\ result' = Err(rv.err)
                    /\ pc' = "done"
                    /\ UNCHANGED cmd_attempt
               ELSE IF cmd_attempt <= max_retries
               THEN /\ cmd_attempt' = cmd_attempt + 1
                    /\ pc' = "sda_loop"
                    /\ UNCHANGED result
               ELSE /\ result' = Err(rv.err)
                    /\ pc' = "done"
                    /\ UNCHANGED cmd_attempt
    /\ stack' = <<>>
    /\ UNCHANGED <<callVars, command, config, env, rv, held, calls>>
    /\ UNCHANGED <<netVars, syncVars, connVars>>

\* match ZKClient::sync_all(..).await
SdaReturned ==
    /\ pc = "sda_returned"
    /\ IF rv.ok
       THEN /\ result' = rv
            /\ pc' = "done"
            /\ UNCHANGED <<last_error, cmd_attempt>>
       ELSE /\ last_error' = rv.err
            /\ IF no_retry(rv.err)
               THEN /\ result' = Err(rv.err)
                    /\ pc' = "done"
                    /\ UNCHANGED cmd_attempt
               ELSE IF cmd_attempt < max_retries
               THEN /\ cmd_attempt' = cmd_attempt + 1
                    /\ pc' = "sda_loop"
                    /\ UNCHANGED result
               ELSE /\ result' = Err(rv.err)
                    /\ pc' = "done"
                    /\ UNCHANGED cmd_attempt
    /\ stack' = <<>>
    /\ UNCHANGED <<callVars, command, config, env, rv, held, calls>>
    /\ UNCHANGED <<netVars, syncVars, connVars>>

\* ------------------------------------------- a direct user of ZKClient
\* ZKClient::connect(&config) called by a user of the library.
ApiConnect(cfg) ==
    /\ pc = "idle"
    /\ command' = "api"
    /\ config' = cfg
    /\ env' = ApiEnv
    /\ Call("connect", "api_connected")
    /\ UNCHANGED <<rv, cmd_attempt, last_error, held, calls, result, callVars>>
    /\ UNCHANGED <<netVars, syncVars, connVars>>

ApiConnected ==
    /\ pc = "api_connected"
    /\ IF rv.ok
       THEN /\ pc' = "api_ready"
            /\ UNCHANGED result
       ELSE /\ pc' = "done"
            /\ result' = rv
    /\ stack' = <<>>
    /\ UNCHANGED <<callVars, command, config, env, rv, cmd_attempt, last_error, held, calls>>
    /\ UNCHANGED <<netVars, syncVars, connVars>>

ApiMethods == {"get_device_info", "get_users", "get_attendance_logs", "disconnect"}

\* The user calls a method of the client.
ApiCall(m) ==
    /\ pc = "api_ready"
    /\ calls < MaxApiCalls
    /\ calls' = calls + 1
    /\ held' = [NoResult EXCEPT !.err = <<m>>]
    /\ Call(m, "api_ready")
    /\ UNCHANGED <<callVars, command, config, env, rv, cmd_attempt, last_error, result>>
    /\ UNCHANGED <<netVars, syncVars, connVars>>

\* The user lets go of the client.
ApiDrop ==
    /\ pc = "api_ready"
    /\ pc' = "done"
    /\ stack' = <<>>
    /\ result' = rv
    /\ drop_client(transport)
    /\ UNCHANGED <<callVars, command, config, env, rv, cmd_attempt, last_error, held, calls>>
    /\ UNCHANGED <<wire, seenUnauth, fetch>>
    /\ UNCHANGED <<syncVars, connVars>>

\* --------------------------------------------- functions, one call at a time
\* Everything but pc and the arguments and results of these calls.
restVars ==
    <<command, config, env, stack, rv, netVars, syncVars, connVars, cmd_attempt,
      last_error, held, calls, result>>

\* get_attendance_logs has the fetched records and is called with options.
InitFilter ==
    /\ pc = "filter"
    /\ Quiet
    /\ options \in OptionsSet
    /\ raw_records \in Fetched
    /\ filtered = <<>>
    /\ NoEncode /\ NoParse /\ NoStream

\* The date filter of get_attendance_logs and its return.
FilterLogs ==
    /\ pc = "filter"
    /\ filtered' = filter_logs(raw_records, options)
    /\ pc' = "filtered"
    /\ UNCHANGED <<options, raw_records, headerVars, timeVars, streamVars, restVars>>

\* A transport is about to encode a packet.
InitHeader ==
    /\ pc = "encode"
    /\ Quiet
    /\ header_args \in HeaderArgs
    /\ buf = <<>>
    /\ NoFilter /\ NoParse /\ NoStream

CreateUdpHeader ==
    /\ pc = "encode"
    /\ buf' = create_udp_header(header_args.command, header_args.session_id,
                                header_args.reply_id, header_args.data)
    /\ pc' = "udp_packet"
    /\ UNCHANGED <<header_args, filterVars, timeVars, streamVars, restVars>>

CreateTcpHeader ==
    /\ pc = "encode"
    /\ buf' = create_tcp_header(header_args.command, header_args.session_id,
                                header_args.reply_id, header_args.data)
    /\ pc' = "tcp_packet"
    /\ UNCHANGED <<header_args, filterVars, timeVars, streamVars, restVars>>

\* A record decoder is about to convert a packed time.
InitTime ==
    /\ pc = "parse"
    /\ Quiet
    /\ time \in Times
    /\ iso = <<>>
    /\ NoFilter /\ NoEncode /\ NoStream

ParseZkTime ==
    /\ pc = "parse"
    /\ iso' = parse_zk_time(time)
    /\ pc' = "parsed"
    /\ UNCHANGED <<time, filterVars, headerVars, streamVars, restVars>>

\* A connected ZKTcp / ZKUdp is about to run get_users / get_attendances.
InitStream ==
    /\ pc = "get"
    /\ Quiet
    /\ zk \in Transports
    /\ rwb = NoRead
    /\ io = <<>>
    /\ NoFilter /\ NoEncode /\ NoParse

otherVars == <<filterVars, headerVars, timeVars, restVars>>

\* free_data().await.ok(): CMD_FREE_DATA is written and, unless the write
\* failed ("unsent"), one read is made, which delivers the reply
\* ("answered") or times out while the reply is still under way ("late");
\* the result is dropped.
FreeDataOutcomes == {"unsent", "answered", "late"}
free_data_ok(obj, outcome) ==
    LET b == [obj EXCEPT !.reply_id = (@ + 1) % U16]
        w == written(CMD_FREE_DATA, b, 0, 0)
    IN  [obj |-> b,
         io |-> <<w>> \o (CASE outcome = "unsent" -> <<>>
                            [] outcome = "answered" -> <<read_for(CMD_FREE_DATA, w.rid)>>
                            [] outcome = "late" -> <<read_for(CMD_FREE_DATA, 0)>>),
         late |-> IF outcome = "late" THEN w.rid ELSE 0]

GetFreeData ==
    /\ pc = "get"
    /\ \E outcome \in FreeDataOutcomes :
        /\ zk' = free_data_ok(zk, outcome).obj
        /\ io' = io \o free_data_ok(zk, outcome).io
        /\ rwb' = [rwb EXCEPT !.late = free_data_ok(zk, outcome).late]
    /\ pc' = "request"
    /\ UNCHANGED otherVars

\* What the first read(s) after CMD_DATA_WRRQ deliver: nothing (the write or
\* the read failed); the reply to the CMD_FREE_DATA before, when that is
\* still under way ("late": a bare CMD_ACK_OK); or a reply to the request:
\* CMD_DATA with a payload of `total` bytes of which plen are in when the
\* header is complete, CMD_PREPARE_DATA / CMD_ACK_OK with the declared size
\* (or a payload too short to hold it), or another code.
FirstReplies ==
    [kind : {"write_failed", "timeout", "late"}, cmd : {0}, plen : {0}, total : {0},
     size : {0}, device : {"any"}]
    \cup [kind : {"reply"}, cmd : {CMD_DATA}, plen : {0}, total : {0, 76}, size : {0},
          device : {"any"}]
    \cup [kind : {"reply"}, cmd : {CMD_DATA}, plen : {76}, total : {76}, size : {0},
          device : {"any"}]
    \cup [kind : {"reply"}, cmd : {CMD_PREPARE_DATA, CMD_ACK_OK}, plen : {5}, total : {5},
          size : Sizes, device : {"any", "orderly"}]
    \cup [kind : {"reply"}, cmd : {CMD_PREPARE_DATA}, plen : {4}, total : {4}, size : {0},
          device : {"any"}]
    \cup [kind : {"reply"}, cmd : {CMD_ACK_UNAUTH, CMD_REG_EVENT}, plen : {0}, total : {0},
          size : {0}, device : {"any"}]

\* A late reply can only be read when one is under way; a datagram comes
\* whole; the byte stream of an orderly device is followed over TCP.
first_reply_of(k, l, o) ==
    /\ o.kind = "late" => l.late # 0
    /\ k = "Udp" => o.plen = o.total /\ o.device = "any"

\* read_with_buffer returns the error e to get_users / get_attendances,
\* which return it (the `?`).
Failed(e) ==
    /\ rwb' = [rwb EXCEPT !.res = Err(e)]
    /\ pc' = "returned"

\* let deadline = Instant::now() + chunk_timeout, in units of 30 s.
with_deadline(l) == [l EXCEPT !.deadline = 2 + l.total_packets, !.now = 0]

\* read_with_buffer: CMD_DATA_WRRQ and the first response; for a dataset
\* sent in chunks the locals are set and ZKTcp builds every chunk request.
RwbRequest ==
    /\ pc = "request"
    /\ \E o \in FirstReplies :
        LET b == [zk EXCEPT !.reply_id = (@ + 1) % U16]
            w == written(CMD_DATA_WRRQ, b, 0, 0)
            built == build_all(b, 0, o.size)
            cmd == IF o.kind = "late" THEN CMD_ACK_OK ELSE o.cmd
            got == o.kind \in {"reply", "late"}
            sized == [rwb EXCEPT
                        !.first = "sized",
                        !.size = o.size,
                        !.remain = remain(o.size),
                        !.total_packets = total_packets(o.size),
                        !.packets_remaining = total_packets(o.size),
                        !.device = o.device,
                        !.chunk_requests = IF zk.kind = "Tcp" THEN built.pkts ELSE <<>>]
        IN
        /\ first_reply_of(zk.kind, rwb, o)
        /\ io' = io \o <<w>>
                 \o (CASE o.kind = "write_failed" -> <<>>
                       [] o.kind = "timeout" -> <<read_for(CMD_DATA_WRRQ, 0)>>
                       [] o.kind = "late" -> <<read_for(CMD_DATA_WRRQ, rwb.late)>>
                       [] o.kind = "reply" -> <<read_for(CMD_DATA_WRRQ, w.rid)>>)
        /\ IF got /\ cmd \in {CMD_PREPARE_DATA, CMD_ACK_OK} /\ o.plen >= 5
              /\ zk.kind = "Tcp"
           THEN zk' = built.obj ELSE zk' = b
        /\ CASE o.kind = "write_failed" ->
                    Failed(<<IF zk.kind = "Tcp" THEN "TCP write failed:"
                             ELSE "UDP send failed:">>)
             [] o.kind = "timeout" -> Failed(<<"Timeout receiving data request response">>)
             [] got /\ cmd = CMD_DATA ->
                    /\ rwb' = [rwb EXCEPT !.first = "small",
                                          !.first_n = o.total,
                                          !.data = extend(<<>>, CMD_DATA, 0, o.plen)]
                    /\ pc' = "free2"
             [] got /\ cmd \in {CMD_PREPARE_DATA, CMD_ACK_OK} ->
                    IF o.plen < 5 THEN Failed(<<"Prepare data response too short">>)
                    ELSE IF total_packets(o.size) = 0
                    THEN rwb' = with_deadline(sized) /\ pc' = "receive"
                    ELSE rwb' = sized /\ pc' = "send"
             [] OTHER -> Failed(<<"Unexpected command in data response:", ToString(cmd),
                                  "(", command_name(cmd), ")">>)
    /\ UNCHANGED otherVars

\* read_with_buffer: one chunk request is written; ZKUdp builds it first.
\* After the last one the deadline of the receive loop is set.
RwbSend ==
    /\ pc = "send"
    /\ LET r == build_chunk_request(zk, rwb.i * MAX_CHUNK, chunk_size(rwb.i, rwb.size))
           pkt == IF zk.kind = "Tcp" THEN rwb.chunk_requests[rwb.i + 1] ELSE r.pkt
       IN
       /\ zk' = IF zk.kind = "Tcp" THEN zk ELSE r.obj
       /\ io' = Append(io, pkt)
       /\ \E sent \in BOOLEAN :
            IF sent
            THEN IF rwb.i + 1 = rwb.total_packets
                 THEN rwb' = with_deadline([rwb EXCEPT !.i = @ + 1]) /\ pc' = "receive"
                 ELSE rwb' = [rwb EXCEPT !.i = @ + 1] /\ pc' = "send"
            ELSE Failed(<<IF zk.kind = "Tcp" THEN "TCP write chunk request failed:"
                          ELSE "UDP send chunk request failed:">>)
    /\ UNCHANGED otherVars

\* The errors that end the receive loop.
deadline_passed(k) ==
    <<IF k = "Tcp" THEN "Timeout receiving chunks," ELSE "Timeout receiving UDP chunks, got">>
read_timed_out(k) ==
    <<IF k = "Tcp" THEN "Timeout receiving chunk data," ELSE "Timeout receiving UDP chunk, got">>
read_failed(k) ==
    <<IF k = "Tcp" THEN "TCP read chunk failed:" ELSE "UDP recv chunk failed:">>
connection_closed == <<"Connection closed during chunk transfer">>

\* read_with_buffer: one pass of the receive loop: the deadline is looked
\* at, then one read is made with what is left of the time; it times out at
\* the deadline, fails, finds the TCP connection closed, or delivers bytes,
\* before the deadline or just as it is reached.  Where packets_remaining is decremented
\* at 0, a build with overflow checks panics and one without goes on with
\* the wrapped value.
RwbReceive ==
    /\ pc = "receive"
    /\ receiving(zk.kind, rwb)
    /\ IF rwb.now >= rwb.deadline
       THEN /\ Failed(deadline_passed(zk.kind))
            /\ io' = io
       ELSE /\ io' = Append(io, read_for(CMD_DATA_RDY, 0))
            /\ \/ /\ rwb' = [rwb EXCEPT !.now = rwb.deadline,
                                        !.res = Err(read_timed_out(zk.kind))]
                  /\ pc' = "returned"
               \/ Failed(read_failed(zk.kind))
               \/ zk.kind = "Tcp" /\ Failed(connection_closed)
               \/ /\ rwb.reads < MaxReads
                  /\ \E r \in ChunkReads(zk.kind, rwb), t \in {rwb.now, rwb.deadline} :
                      LET l == [rwb EXCEPT !.reads = @ + 1, !.now = t, !.sent = r.sent,
                                           !.received = IF zk.kind = "Udp"
                                                        THEN @ \o r.bytes ELSE @]
                          after == IF zk.kind = "Udp" THEN receive_datagram(l, r.bytes[1])
                                   ELSE IF check_not_event_tcp(r.bytes) THEN l
                                   ELSE process_packets(l, joined(l.total_buffer, r.bytes))
                      IN  IF after.panic # "none"
                          THEN rwb' = after /\ pc' = "panicked"
                          ELSE \/ rwb' = after /\ pc' = "receive"
                               \/ /\ after.packets_remaining < 0
                                  /\ rwb.packets_remaining > 0
                                  /\ rwb' = [after EXCEPT !.panic = "overflow"]
                                  /\ pc' = "panicked"
    /\ UNCHANGED <<zk, otherVars>>

\* read_with_buffer: the receive loop is over and the dataset is returned.
RwbReturn ==
    /\ pc = "receive"
    /\ ~receiving(zk.kind, rwb)
    /\ rwb' = [rwb EXCEPT !.data = IF zk.kind = "Tcp" THEN rwb.reply_data
                                   ELSE rwb.total_buffer]
    /\ pc' = "free2"
    /\ UNCHANGED <<zk, io, otherVars>>

\* The second free_data, then the records are decoded and returned.
GetFreeDataAgain ==
    /\ pc = "free2"
    /\ \E outcome \in FreeDataOutcomes :
        /\ zk' = free_data_ok(zk, outcome).obj
        /\ io' = io \o free_data_ok(zk, outcome).io
    /\ rwb' = [rwb EXCEPT !.res = Ok(records_in(zk.kind, zk.op, rwb.first = "small",
                                                 byte_len(rwb.data)))]
    /\ pc' = "returned"
    /\ UNCHANGED otherVars

\* ------------------------------------------------------- specifications
Connecting ==
    \/ TcpDial \/ TcpConnect \/ TcpAuth \/ TcpAuthFailed \/ TcpFailed
    \/ UdpBind \/ UdpConnect \/ UdpAuth \/ UdpAuthFailed

\* get_users / get_attendance_logs and disconnect of a ZKClient.
Fetching ==
    \/ FetchFree1 \/ FetchRequest \/ FetchReceive \/ FetchFree2
    \/ ClientDisconnect

Operating == ClientGetDeviceInfo \/ Fetching

\* The one-session commands.
Next ==
    \/ \E cfg \in Configs : get_device_info_cmd(cfg)
    \/ \E cfg \in Configs : get_device_users(cfg)
    \/ \E cfg \in Configs : get_attendance_logs_cmd(cfg)
    \/ \E cfg \in Configs : test_device_connection(cfg)
    \/ CmdConnected \/ CmdFetched \/ CmdDisconnected
    \/ TcConnected \/ TcInfo \/ TcDisconnected
    \/ Connecting
    \/ Operating

Spec == Init /\ [][Next]_vars

\* A direct user of ZKClient.
NextApi ==
    \/ \E cfg \in ApiConfigs : ApiConnect(cfg)
    \/ ApiConnected \/ ApiDrop
    \/ \E m \in ApiMethods : ApiCall(m)
    \/ Connecting
    \/ Operating

SpecApi == Init /\ [][NextApi]_vars

\* sync_device_all.
NextSync ==
    \/ \E cfg \in SyncConfigs : sync_device_all(cfg)
    \/ SdaLoop \/ SdaReturned
    \/ SaStart \/ SaConnected \/ SaUsers \/ SaUsersClosed \/ SaLoop
    \/ SaReconnected \/ SaLogs \/ SaLogsOk \/ SaLogsErr \/ SaEnd
    \/ Connecting
    \/ Fetching

SpecSync == Init /\ [][NextSync]_vars

\* The date filter of get_attendance_logs on fetched records.
NextFilter == FilterLogs

SpecFilter == InitFilter /\ [][NextFilter]_vars

\* The packet encoders.
NextHeader == CreateUdpHeader \/ CreateTcpHeader

SpecHeader == InitHeader /\ [][NextHeader]_vars

\* The conversion of packed times.
NextTime == ParseZkTime

SpecTime == InitTime /\ [][NextTime]_vars

\* get_users / get_attendances of a transport, packet by packet.
NextStream ==
    \/ GetFreeData \/ RwbRequest \/ RwbSend \/ RwbReceive \/ RwbReturn
    \/ GetFreeDataAgain

SpecStream == InitStream /\ [][NextStream]_vars

\* The same where a step that can be taken is taken in the end: the
\* runtime goes on polling the future of get_users / get_attendances.
FairStream == SpecStream /\ WF_vars(NextStream)

\* ------------------------------------------------------------- properties
\* The packets handed to the socket of kind k since the last connect began.
session(k) == SelectSeq(wire, LAMBDA p : p.t = k)

\* The message a occurs in the message b as a contiguous piece.
occurs_in(a, b) ==
    \E i \in 0..(Len(b) - Len(a)) : \A j \in 1..Len(a) : b[i + j] = a[j]

\* How often command c occurs among the packets s.
count(s, c) == Cardinality({i \in 1..Len(s) : s[i].c = c})

DataCmds == {CMD_FREE_DATA, CMD_DATA_WRRQ, CMD_DATA_RDY, CMD_GET_FREE_SIZES}

NoSockets == [Tcp |-> 0, Udp |-> 0]

ConnectLabels ==
    {"connect", "tcp_connect", "tcp_auth", "tcp_auth_failed", "tcp_failed",
     "udp_bind", "udp_connect", "udp_auth", "udp_auth_failed"}
UdpLabels == {"udp_bind", "udp_connect", "udp_auth", "udp_auth_failed"}

\* ZKClient::connect has just returned to a command or to the user.
AfterConnect == pc \in {"cmd_connected", "tc_connected", "api_connected"}

\* C1: when a command has returned (and when sync_all has returned to
\* sync_device_all), the session its last connect established has been
\* disconnected: CMD_EXIT is the last packet written on it and no socket is
\* left open.
C1_DisconnectOnEveryExit ==
    (pc \in {"done", "sda_returned"} /\ chosen # "None") =>
        /\ open = NoSockets
        /\ session(chosen) # <<>>
        /\ session(chosen)[Len(session(chosen))].c = CMD_EXIT

\* C2: a session that connect established starts with its only CMD_CONNECT;
\* while the client is connected no CMD_EXIT has been written; once
\* disconnect was called CMD_EXIT is the last packet, written once, however
\* many calls follow, and a disconnect call returns Ok.
C2_OneConnectOneExit ==
    (pc = "api_ready" /\ chosen # "None") =>
        LET s == session(chosen) IN
        /\ s # <<>> /\ s[1].c = CMD_CONNECT
        /\ count(s, CMD_CONNECT) = 1
        /\ transport # "None" => count(s, CMD_EXIT) = 0
        /\ transport = "None" =>
            /\ s[Len(s)].c = CMD_EXIT
            /\ count(s, CMD_EXIT) = 1
            /\ open = NoSockets
        /\ (calls > 0 /\ held.err = <<"disconnect">>) => rv = Ok(0)

\* C2 happens: a UDP session was disconnected and disconnect called again.
C2_Witness ==
    /\ pc = "api_ready"
    /\ chosen = "Udp"
    /\ transport = "None"
    /\ calls = 2
    /\ held.err = <<"disconnect">>
    /\ Len(session("Udp")) = 2

\* C3: within a connect TCP comes first and UDP only after tcp.connect()
\* failed; a call that handed out a TCP client wrote no UDP packet, one that
\* found TCP failing and UDP working handed out a UDP client; and after UDP
\* packets no TCP packet follows, whatever is called on the client.
C3_TransportKindKept ==
    /\ \A i, j \in 1..Len(wire) : (i < j /\ wire[i].t = "Udp") => wire[j].t = "Udp"
    /\ (pc \in UdpLabels \/ session("Udp") # <<>>) =>
            tcp_error # <<>> /\ chosen # "Tcp" /\ ~tr.Tcp.stream
    /\ chosen = "Tcp" => session("Udp") = <<>> /\ session("Tcp") # <<>>
    /\ chosen = "Udp" => session("Udp") # <<>>
    /\ transport \in {"None", chosen}
    /\ AfterConnect =>
        /\ rv.ok <=> chosen # "None"
        /\ chosen = "Tcp" <=> (tcp_error = <<>> /\ auth_error = <<>>)
        /\ chosen = "Udp" <=> (tcp_error # <<>> /\ udp_error = <<>> /\ auth_error = <<>>)
        /\ rv.ok => rv.val = chosen /\ transport = chosen /\ tr[chosen].stream

\* C3 happens: TCP's CMD_CONNECT failed, UDP worked, and a data command of
\* the client went out over UDP.
C3_Witness ==
    /\ pc = "api_ready"
    /\ chosen = "Udp"
    /\ session("Tcp") # <<>>
    /\ \E i \in 1..Len(wire) : wire[i].t = "Udp" /\ wire[i].c \in DataCmds

\* comm_key is present and parses to a value > 0.
KeyPositive(cfg) ==
    /\ cfg.comm_key.some
    /\ parse_unsigned(cfg.comm_key.s, U32_MAX).ok
    /\ parse_unsigned(cfg.comm_key.s, U32_MAX).digits # <<>>

\* comm_key is absent, empty, not parseable as a u32, or "0".
KeyAbsent(cfg) ==
    \/ ~cfg.comm_key.some
    \/ cfg.comm_key.s = <<>>
    \/ ~parse_unsigned(cfg.comm_key.s, U32_MAX).ok
    \/ cfg.comm_key.s = <<"0">>

\* C4: with a comm key > 0, in the session of either kind: the packet after
\* CMD_CONNECT is CMD_AUTH (or the CMD_EXIT of a connect that failed), a
\* client is handed out only with CMD_AUTH sent, a data command is on the
\* wire only when CMD_AUTH was answered CMD_ACK_OK, and after any other fate
\* of CMD_AUTH connect has returned "Device authentication failed: ..." with
\* the session torn down: CMD_EXIT written last, no socket open, no client.
C4_AuthBeforeData ==
    KeyPositive(config) =>
        /\ \A k \in Kinds :
            LET s == session(k) IN
            /\ s # <<>> => s[1].c = CMD_CONNECT
            /\ Len(s) >= 2 => s[2].c \in {CMD_AUTH, CMD_EXIT}
            /\ chosen = k => Len(s) >= 2 /\ s[2].c = CMD_AUTH
            /\ (\E i \in 1..Len(s) : s[i].c \in DataCmds) =>
                    authAck = "ok" /\ s[2].c = CMD_AUTH
            /\ count(s, CMD_AUTH) <= 1
        /\ (AfterConnect /\ authAck \in {"refused", "lost"}) =>
            /\ ~rv.ok
            /\ rv.err = <<"Device authentication failed:">> \o auth_error
            /\ chosen = "None" /\ transport = "None"
            /\ open = NoSockets
            /\ wire[Len(wire)].c = CMD_EXIT
            /\ wire[Len(wire) - 1].c = CMD_AUTH

\* C4 happens: over UDP the device answered CMD_AUTH with something other
\* than CMD_ACK_OK, and connect has returned.
C4_Witness ==
    /\ KeyPositive(config)
    /\ AfterConnect
    /\ authAck = "refused"
    /\ count(session("Udp"), CMD_AUTH) = 1

\* C5: without a usable comm key no CMD_AUTH packet is written, over TCP or
\* over UDP, and the session goes on without it.
C5_NoAuthWithoutKey ==
    KeyAbsent(config) =>
        /\ \A i \in 1..Len(wire) : wire[i].c # CMD_AUTH
        /\ authAck = "none"
        /\ pc \notin {"tcp_auth", "tcp_auth_failed", "udp_auth", "udp_auth_failed"}

\* C5 happens: the key is one past u32::MAX, and a UDP session ran data
\* commands.
C5_Witness ==
    /\ config.comm_key = Some(<<"4", "2", "9", "4", "9", "6", "7", "2", "9", "6">>)
    /\ pc = "done"
    /\ chosen = "Udp"
    /\ \E i \in 1..Len(wire) : wire[i].c \in DataCmds

\* C6: a command during which the device answered CMD_CONNECT, CMD_AUTH,
\* CMD_GET_FREE_SIZES or CMD_DATA_WRRQ with CMD_ACK_UNAUTH never reports
\* success: test_device_connection returns success = false, the others Err.
C6_UnauthNeverSuccess ==
    (pc = "done" /\ seenUnauth) =>
        IF command = "test_device_connection"
        THEN result.ok /\ ~result.val.success
        ELSE ~result.ok

\* C7: when tcp.connect() succeeded and the CMD_AUTH exchange over TCP was
\* lost to a transport problem, connect has gone on to UDP by the time it
\* returns: the UDP attempt failed with a message or wrote packets.
C7_LostAuthFallsBackToUdp ==
    (AfterConnect /\ authAck = "lost" /\ count(session("Tcp"), CMD_AUTH) = 1) =>
        (udp_error # <<>> \/ session("Udp") # <<>>)

\* C8: when the TCP attempt and the UDP attempt both failed, the error
\* connect returns contains the message of each.
C8_BothMessagesKept ==
    (AfterConnect /\ tcp_error # <<>> /\ udp_error # <<>>) =>
        /\ ~rv.ok
        /\ occurs_in(tcp_error, rv.err)
        /\ occurs_in(udp_error, rv.err)

\* The session the last connect established, if any, was ended by a
\* disconnect: one CMD_CONNECT first, one CMD_EXIT last, no socket open.
SessionClosed ==
    /\ open = NoSockets
    /\ transport = "None"
    /\ chosen # "None" =>
        LET s == session(chosen) IN
        /\ s[1].c = CMD_CONNECT /\ count(s, CMD_CONNECT) = 1
        /\ s[Len(s)].c = CMD_EXIT /\ count(s, CMD_EXIT) = 1

C10_SyncAllResult ==
    /\ (pc = "disconnect" /\ Head(stack) = "sa_logs_ok") => (rv.ok /\ logs = rv.val)
    /\ pc = "sa_end" =>
        LET r == sync_all_result(users, logs, last_err) IN
        /\ r.ok <=> attempt < LogAttempts
        /\ r.ok => r.val = [users |-> users, logs |-> logs]
        /\ ~r.ok =>
            /\ attempt = LogAttempts
            /\ SubSeq(r.err, 1, 3) =
                <<"Got", ToString(users), "users but failed to fetch attendance logs:">>
            /\ SubSeq(r.err, 4, Len(r.err)) = last_err
            /\ last_err # <<>>

\* C10 happens: one user was fetched, two logs attempts failed and the third
\* fetched an empty log.
C10_Witness ==
    /\ pc = "sa_end"
    /\ users = 1
    /\ attempt = 2
    /\ logs = 0
    /\ last_err = <<>>

\* sync_device_all has returned after running sync_all at least once.
SyncReturned ==
    pc = "done" /\ command = "sync_device_all" /\ validate_config(config).ok

\* The message reports an authentication failure: it holds one of the texts
\* the transports and the client use for one, or the name of the code
\* CMD_ACK_UNAUTH.
indicates_auth(e) ==
    \E i \in 1..Len(e) :
        e[i] \in {"Device authentication failed:",
                  "Device authentication failed (response:",
                  "Device authentication failed: empty response",
                  "Authentication failed - check communication key",
                  "CMD_ACK_UNAUTH"}

\* The message reports a failure of the transport: a timeout, a refused
\* connection, an unreachable host or a broken pipe.
transport_failure(e) ==
    \E i \in 1..Len(e) :
        e[i] \in {"TCP connect timeout to", "Timeout waiting for TCP response",
                  "Timeout waiting for UDP response",
                  "Timeout receiving data request response",
                  "Timeout receiving chunk data,", "Timeout receiving UDP chunk, got",
                  "Connection refused (os error 111)", "No route to host (os error 113)",
                  "Broken pipe (os error 32)"}

\* A decimal octet in [0,255]: digits only, of a value up to 255.
decimal_octet(s) == s # <<>> /\ IsDigits(s) /\ ~exceeds(strip_zeros(s), U8_MAX)

\* The config is one the commands are to accept.
WellFormed(cfg) ==
    /\ Len(cfg.ip) = 4
    /\ \A i \in 1..Len(cfg.ip) : decimal_octet(cfg.ip[i])
    /\ cfg.port # 0

ValidationErrors == {<<"Invalid IP address:", "IP">>, <<"Port cannot be 0">>}

\* C11: sync_device_all runs sync_all at most 4 times (attempt cmd_attempt
\* is the (cmd_attempt + 1)-th run); a further run never follows an Ok; an
\* Ok result is returned as sync_all gave it; and after the 4th failed run
\* the error returned is the error of that run.
C11_AtMostFourAttempts ==
    /\ cmd_attempt + 1 <= 4
    /\ (pc = "sda_loop" /\ cmd_attempt > 0) => ~rv.ok
    /\ (pc = "sda_returned" /\ rv.ok) => result = NoResult
    /\ SyncReturned =>
        /\ result.ok <=> rv.ok
        /\ result.ok => result = rv
        /\ (~result.ok /\ cmd_attempt + 1 = 4) => result = Err(rv.err)

\* C11 happens: the fourth run of sync_all failed with an error that is
\* retried, and sync_device_all returned it.
C11_Witness ==
    /\ SyncReturned
    /\ cmd_attempt + 1 = 4
    /\ ~result.ok
    /\ ~indicates_auth(result.err)

C13_AuthFailureEndsLogsLoop ==
    (pc = "sa_loop" /\ attempt > 0 /\ chosen = "None" /\ authAck = "refused") =>
        attempt = LogAttempts

\* C14: sync_device_all gives up on a transport failure only after 3 retries.
C14_TransportFailureRetried ==
    (SyncReturned /\ ~result.ok /\ transport_failure(result.err)) =>
        cmd_attempt = max_retries

\* C15: a command given a config whose ip is not four decimal octets or
\* whose port is 0 has returned a validation error at once: it is never
\* under way, nothing was written and no socket is open.
C15_InvalidConfigRejected ==
    (command \in {"get_device_info", "get_device_users", "get_attendance_logs",
                  "test_device_connection", "sync_device_all"}
     /\ ~WellFormed(config)) =>
        /\ pc = "done"
        /\ ~result.ok
        /\ result.err \in ValidationErrors
        /\ wire = <<>>
        /\ open = NoSockets

\* a <= b in the lexicographic order of strings: a is a prefix of b, or at
\* the first place where they differ a has the smaller byte.
lex_le(a, b) ==
    \/ Len(a) <= Len(b) /\ \A i \in 1..Len(a) : a[i] = b[i]
    \/ \E i \in 1..Len(a) :
        /\ i <= Len(b)
        /\ \A j \in 1..(i - 1) : a[j] = b[j]
        /\ byte_of(a[i]) < byte_of(b[i])

\* The filter was called with mode "range" and both dates.
RangeGiven ==
    options.some /\ options.mode = "range" /\ options.start_date.some /\ options.end_date.some

date_only(d) == \A i \in 1..Len(d) : d[i] # "T"

\* The bounds of the range as the claims give them.
lower_bound ==
    IF date_only(options.start_date.s)
    THEN options.start_date.s \o <<"T", "0", "0", ":", "0", "0", ":", "0", "0">>
    ELSE options.start_date.s
upper_bound ==
    IF date_only(options.end_date.s)
    THEN options.end_date.s \o <<"T", "2", "3", ":", "5", "9", ":", "5", "9">>
    ELSE options.end_date.s

\* s holds the timestamp ts.
holds(s, ts) == \E i \in 1..Len(s) : s[i] = ts

Jan15 == <<"2", "0", "2", "4", "-", "0", "1", "-", "1", "5">>

\* C16: every log get_attendance_logs returns for mode "range" with both
\* dates is one of the fetched logs and its timestamp lies between the two
\* bounds in string order; with both dates 2024-01-15 the logs at
\* 2024-01-14T23:59:59.999Z and 2024-01-16T00:00:00.000Z are dropped and a
\* fetched log at 2024-01-15T09:00:00.000Z is kept.
C16_RangeFilter ==
    (pc = "filtered" /\ RangeGiven) =>
        /\ \A i \in 1..Len(filtered) :
            /\ holds(raw_records, filtered[i])
            /\ lex_le(lower_bound, filtered[i])
            /\ lex_le(filtered[i], upper_bound)
        /\ (options.start_date.s = Jan15 /\ options.end_date.s = Jan15) =>
            /\ ~holds(filtered, <<"2", "0", "2", "4", "-", "0", "1", "-", "1", "4", "T", "2", "3",
                                  ":", "5", "9", ":", "5", "9", ".", "9", "9", "9", "Z">>)
            /\ ~holds(filtered, <<"2", "0", "2", "4", "-", "0", "1", "-", "1", "6", "T", "0", "0",
                                  ":", "0", "0", ":", "0", "0", ".", "0", "0", "0", "Z">>)
            /\ LET kept == <<"2", "0", "2", "4", "-", "0", "1", "-", "1", "5", "T", "0", "9",
                             ":", "0", "0", ":", "0", "0", ".", "0", "0", "0", "Z">>
               IN  holds(raw_records, kept) => holds(filtered, kept)

\* C16 happens: with both dates 2024-01-15 a log of the 16th was dropped and
\* the log at 09:00 of the 15th was kept.
C16_Witness ==
    /\ pc = "filtered"
    /\ RangeGiven
    /\ options.start_date.s = Jan15 /\ options.end_date.s = Jan15
    /\ Len(raw_records) = 2
    /\ raw_records[1] = parse_zk_time(zk_time(2024, 1, 16, 0, 0, 0))
    /\ filtered = <<parse_zk_time(zk_time(2024, 1, 15, 9, 0, 0))>>

\* C17: with mode "range" and date-only bounds every fetched log whose
\* calendar date lies between start_date and end_date is returned.
C17_WholeDaysInclusive ==
    (pc = "filtered" /\ RangeGiven
     /\ date_only(options.start_date.s) /\ date_only(options.end_date.s)) =>
        \A i \in 1..Len(raw_records) :
            LET d == SubSeq(raw_records[i], 1, 10) IN
            (lex_le(options.start_date.s, d) /\ lex_le(d, options.end_date.s)) =>
                holds(filtered, raw_records[i])

\* The packet without the TCP envelope.
inner_packet == IF pc = "tcp_packet" THEN SubSeq(buf, 9, Len(buf)) ELSE buf

\* C18: the reply id field of a packet built from the local reply_id is
\* (reply_id + 1) mod 65535, the sum taken in the integers.
C18_WireReplyId ==
    pc \in {"udp_packet", "tcp_packet"} =>
        inner_packet[7] + 256 * inner_packet[8] = (header_args.reply_id + 1) % 65535

RECURSIVE sum_words(_)
\* The sum of the little-endian 16-bit words of b, a last odd byte added
\* as a byte.
sum_words(b) ==
    IF b = <<>> THEN 0
    ELSE IF Len(b) = 1 THEN b[1]
    ELSE b[1] + 256 * b[2] + sum_words(SubSeq(b, 3, Len(b)))

\* C19: the packet built holds the header fields and the payload, and the
\* 16-bit little-endian value at offset 2 is 65535 - s - 1, s being the sum
\* modulo 65535 of the words of the packet as it is sent but with that
\* field zero.
C19_ChecksumField ==
    pc \in {"udp_packet", "tcp_packet"} =>
        LET p == inner_packet
            zeroed == [p EXCEPT ![3] = 0, ![4] = 0]
        IN  /\ Len(p) = 8 + Len(header_args.data)
            /\ p[1] + 256 * p[2] = header_args.command
            /\ p[5] + 256 * p[6] = header_args.session_id
            /\ SubSeq(p, 9, Len(p)) = header_args.data
            /\ p[3] + 256 * p[4] = 65535 - (sum_words(zeroed) % 65535) - 1

\* C19 happens: a TCP packet with a payload of odd length and a reply id
\* whose wire value is not 0 was built.
C19_Witness ==
    /\ pc = "tcp_packet"
    /\ Len(header_args.data) = 3
    /\ header_args.reply_id = 1
    /\ header_args.session_id = 4660

\* C20: while a client that connect returned is connected, the session_id of
\* its transport is the value at bytes 4..6 of the CMD_CONNECT reply, and
\* every packet written after CMD_CONNECT in that session carries it.
C20_SessionIdFromAck ==
    chosen # "None" =>
        LET s == session(chosen) IN
        /\ connect_ack.has_sid
        /\ transport = chosen => tr[chosen].session_id = connect_ack.sid
        /\ \A i \in 2..Len(s) : s[i].sid = connect_ack.sid

\* The number a run of decimal digits of a string stands for.
RECURSIVE number(_)
number(d) == IF d = <<>> THEN 0 ELSE 10 * number(SubSeq(d, 1, Len(d) - 1)) + DigitValue(d[Len(d)])

\* The days of the months of the calendar.
leap(year) == (year % 4 = 0 /\ year % 100 # 0) \/ year % 400 = 0
days_in(year, month) ==
    IF month = 2 THEN (IF leap(year) THEN 29 ELSE 28)
    ELSE (<<31, 0, 31, 30, 31, 30, 31, 31, 30, 31, 30, 31>>)[month]

\* The packed time t as days (t / 86400) and second of the day (t % 86400),
\* from its halves: 86400 = 128 * 675 and t / 128 = hi * 512 + lo / 128.
packed_days(t) == (t.hi * 512 + t.lo \div 128) \div 675
packed_secs(t) == ((t.hi * 512 + t.lo \div 128) % 675) * 128 + (t.lo % 128)

\* C23: for a packed time t parse_zk_time returns the date-time with second
\* t%60, minute (t/60)%60, hour (t/3600)%24, month ((t/86400/31)%12)+1, year
\* t/86400/31/12 + 2000 and day the smaller of ((t/86400)%31)+1 and the last
\* day of that month; it is a date-time of the calendar with year >= 2000.
C23_FieldsOfPackedTime ==
    pc = "parsed" =>
        LET days == packed_days(time)
            secs == packed_secs(time)
            year == ((days \div 31) \div 12) + 2000
            month == ((days \div 31) % 12) + 1
            day == IF (days % 31) + 1 < days_in(year, month) THEN (days % 31) + 1
                   ELSE days_in(year, month)
        IN  /\ Len(iso) = 24
            /\ <<iso[5], iso[8], iso[11], iso[14], iso[17]>> = <<"-", "-", "T", ":", ":">>
            /\ SubSeq(iso, 20, 24) = <<".", "0", "0", "0", "Z">>
            /\ \A i \in (1..19) \ {5, 8, 11, 14, 17} : IsDigits(<<iso[i]>>)
            /\ number(SubSeq(iso, 1, 4)) = year
            /\ number(SubSeq(iso, 6, 7)) = month
            /\ number(SubSeq(iso, 9, 10)) = day
            /\ number(SubSeq(iso, 12, 13)) = (secs \div 3600) % 24
            /\ number(SubSeq(iso, 15, 16)) = (secs \div 60) % 60
            /\ number(SubSeq(iso, 18, 19)) = secs % 60
            /\ year >= 2000
            /\ number(SubSeq(iso, 6, 7)) \in 1..12
            /\ number(SubSeq(iso, 9, 10)) \in 1..days_in(year, month)
            /\ number(SubSeq(iso, 12, 13)) <= 23
            /\ number(SubSeq(iso, 15, 16)) <= 59
            /\ number(SubSeq(iso, 18, 19)) <= 59

\* C23 happens: day 31 of April, which has 30 days, was converted, and so
\* was day 29 of February 2100, a time above 2^31.
C23_Witness ==
    /\ pc = "parsed"
    /\ \/ time = zk_time(2024, 4, 31, 23, 59, 59) /\ number(SubSeq(iso, 9, 10)) = 30
       \/ time = zk_time(2100, 2, 29, 0, 0, 0) /\ time.hi >= 32768
                                               /\ number(SubSeq(iso, 9, 10)) = 28

\* C24 as stated: the packed time 621355968 (9481 * 65536 + 9152) is
\* converted to 2019-07-06T00:00:00.000Z.
C24_KnownTimestamp ==
    (pc = "parsed" /\ time = [hi |-> 9481, lo |-> 9152]) =>
        iso = <<"2", "0", "1", "9", "-", "0", "7", "-", "0", "6", "T", "0", "0", ":", "0", "0",
                ":", "0", "0", ".", "0", "0", "0", "Z">>

\* C24: the packed time 621355968 holds year 2019, month 4, day 31 and
\* 14:52:48; April has 30 days, so it is converted to
\* 2019-04-30T14:52:48.000Z.  The packed time of 2019-07-06T00:00:00 is
\* 627177600 (9569 * 65536 + 63616), which is converted to 2019-07-06T00:00:00.000Z.
C24_DecodesToApril30 ==
    /\ (pc = "parsed" /\ time = [hi |-> 9481, lo |-> 9152]) =>
        iso = <<"2", "0", "1", "9", "-", "0", "4", "-", "3", "0", "T", "1", "4", ":", "5", "2",
                ":", "4", "8", ".", "0", "0", "0", "Z">>
    /\ (pc = "parsed" /\ time = [hi |-> 9569, lo |-> 63616]) =>
        iso = <<"2", "0", "1", "9", "-", "0", "7", "-", "0", "6", "T", "0", "0", ":", "0", "0",
                ":", "0", "0", ".", "0", "0", "0", "Z">>

\* C24 happens: 621355968 was converted.
C24_Witness ==
    pc = "parsed" /\ time = [hi |-> 9481, lo |-> 9152] /\ Len(iso) = 24

\* create_tcp_header was called for CMD_CONNECT with session id 0, local
\* reply id 0 and no payload.
ConnectEncoded ==
    /\ pc = "tcp_packet"
    /\ header_args = [command |-> CMD_CONNECT, session_id |-> 0, reply_id |-> 0, data |-> <<>>]

\* The checksum of the inner packet e8 03 00 00 00 00 01 00 by the formula:
\* 65535 - ((1000 + 0 + 0 + 1) mod 65535) - 1.
ConnectChecksum == 65535 - (sum_words(<<232, 3, 0, 0, 0, 0, 1, 0>>) % 65535) - 1

ConnectReturned == AfterConnect \/ pc \in {"sa_connected", "sa_reconnected"}

\* C22: no socket is open when a command has returned, when sync_all has
\* returned to its command, or when connect has returned an error; a client
\* that connect returned holds the one socket of its transport and no other
\* (the socket of a failed TCP attempt is closed before UDP is tried); and
\* once a client was disconnected or dropped no socket is open.  Every open
\* socket is the socket of a transport object that exists.
C22_NoSocketLeftOpen ==
    /\ pc \in {"done", "sda_returned"} => open = NoSockets
    /\ (ConnectReturned /\ ~rv.ok) => open = NoSockets
    /\ (ConnectReturned /\ rv.ok) => open = [NoSockets EXCEPT ![chosen] = 1]
    /\ pc \in UdpLabels => open.Tcp = 0
    /\ (transport = "None" /\ pc \notin ConnectLabels) => open = NoSockets
    /\ \A k \in Kinds : open[k] = (IF tr[k].stream THEN 1 ELSE 0)

\* C22 happens: sync_all returned an error of the users fetch in a TCP
\* session it never disconnected (CMD_EXIT was not written), and the socket
\* is closed.
C22_Witness ==
    /\ pc = "sda_returned"
    /\ chosen = "Tcp"
    /\ ~rv.ok
    /\ session("Tcp")[Len(session("Tcp"))].c # CMD_EXIT
    /\ open = NoSockets

\* The last packet written.
last_sent == wire[Len(wire)]

\* C29: get_users / get_attendances of a transport first write
\* CMD_FREE_DATA and go on to the CMD_DATA_WRRQ whatever becomes of it; the
\* CMD_DATA_WRRQ is the packet written next; and when the bulk read has
\* returned its dataset, CMD_FREE_DATA is written again and the operation
\* returns Ok with the records of the dataset whatever becomes of that
\* second CMD_FREE_DATA.
C29_FreeDataAroundBulkRead ==
    [][/\ (pc \in {"get_users", "get_attendance_logs"} /\ transport # "None") =>
            /\ pc' = "wrrq"
            /\ wire' = Append(wire, wire'[Len(wire')])
            /\ wire'[Len(wire')].c = CMD_FREE_DATA
       /\ pc = "wrrq" =>
            /\ last_sent.c = CMD_FREE_DATA
            /\ Len(wire') > Len(wire)
            /\ wire'[Len(wire) + 1].c = CMD_DATA_WRRQ
            /\ \A i \in (Len(wire) + 2)..Len(wire') : wire'[i].c = CMD_DATA_RDY
       /\ pc = "recv" => wire' = wire
       /\ pc = "free2" =>
            /\ last_sent.c \in {CMD_DATA_WRRQ, CMD_DATA_RDY}
            /\ wire' = Append(wire, wire'[Len(wire')])
            /\ wire'[Len(wire')].c = CMD_FREE_DATA
            /\ pc' = Head(stack)
            /\ rv' = Ok(fetch.recs)
      ]_vars

\* C29 happens: the first CMD_FREE_DATA failed, the bulk read that followed
\* returned a dataset with a record, and the second CMD_FREE_DATA is due.
C29_Witness ==
    /\ pc = "free2"
    /\ ~fetch.freed
    /\ fetch.recs > 0
    /\ count(session(transport), CMD_FREE_DATA) = 1

\* C21: the first packet of a session is CMD_CONNECT, encoded with session
\* id 0 and local reply id 0 (wire reply id 1), and the wire reply ids of
\* the packets handed to the socket in a session are 1, 2, 3, ... in order,
\* without gap or repetition.
C21_ReplyIdsInSequence ==
    \A k \in Kinds :
        LET s == session(k) IN
        /\ s # <<>> => s[1].c = CMD_CONNECT /\ s[1].sid = 0
        /\ \A i \in 1..Len(s) : s[i].rid = i

\* The CMD_DATA_RDY requests written, in order.
requests == SelectSeq(io, LAMBDA e : e.op = "write" /\ e.c = CMD_DATA_RDY)

\* The places in io of the reads made for chunk replies.
chunk_reads == {i \in 1..Len(io) : io[i].op = "read" /\ io[i].c = CMD_DATA_RDY}

\* The first response declared a size and every chunk request was written.
AllRequested ==
    /\ rwb.first = "sized"
    /\ rwb.i = rwb.total_packets
    /\ pc \in {"receive", "free2", "returned", "panicked"}

\* ceil(S / MAX_CHUNK)
chunks_of(S) == (S \div 65472) + (IF S % 65472 = 0 THEN 0 ELSE 1)

\* C26: for a declared size S exactly ceil(S / MAX_CHUNK) CMD_DATA_RDY
\* requests are written; request i (from 0) has start i * MAX_CHUNK and
\* length MAX_CHUNK, but the last has length S mod MAX_CHUNK when that is
\* not 0; the ranges follow each other without gap or overlap and end at S.
C26_ChunkRequests ==
    AllRequested =>
        LET S == rwb.size
            n == Len(requests)
        IN  /\ n = chunks_of(S)
            /\ \A i \in 1..n :
                /\ requests[i].start = (i - 1) * 65472
                /\ requests[i].size = IF i = n /\ S % 65472 # 0 THEN S % 65472 ELSE 65472
                /\ i < n => requests[i + 1].start = requests[i].start + requests[i].size
            /\ n > 0 => requests[n].start + requests[n].size = S
            /\ S = 65472 => n = 1 /\ requests[1].size = 65472
            /\ S = 65473 => n = 2 /\ requests[2].size = 1

\* C26 happens: size MAX_CHUNK + 1 was declared and two requests were
\* written, the second for 1 byte from MAX_CHUNK on.
C26_Witness ==
    /\ AllRequested
    /\ rwb.size = 65473
    /\ Len(requests) = 2
    /\ requests[2].start = 65472 /\ requests[2].size = 1

\* C27: when the first response declares size 0, no CMD_DATA_RDY request is
\* written and no read is made for a chunk; the streaming read returns an
\* empty dataset, and get_users / get_attendances, having written the
\* second CMD_FREE_DATA, return Ok with no record.
C27_SizeZero ==
    (rwb.first = "sized" /\ rwb.size = 0) =>
        /\ requests = <<>>
        /\ chunk_reads = {}
        /\ pc \in {"receive", "free2", "returned"}
        /\ rwb.data = <<>>
        /\ pc = "returned" =>
            /\ rwb.res = Ok(0)
            /\ \E i \in 1..Len(io) :
                /\ io[i].op = "write" /\ io[i].c = CMD_FREE_DATA
                /\ \E j \in 1..(i - 1) : io[j].c = CMD_DATA_WRRQ
                /\ \A j \in (i + 1)..Len(io) : io[j].op = "read"

\* C27 happens: get_attendances over UDP returned after a first response
\* that declared size 0.
C27_Witness ==
    /\ pc = "returned"
    /\ zk.kind = "Udp" /\ zk.op = "get_attendances"
    /\ rwb.first = "sized" /\ rwb.size = 0
    /\ rwb.res = Ok(0)

\* The wire reply id of the last packet written before place i of io.
rid_before(i) ==
    LET before == {j \in 1..(i - 1) : io[j].op = "write"} IN
    io[CHOOSE j \in before : \A m \in before : m <= j].rid

\* C28: in a streaming read the CMD_DATA_RDY requests are written in
\* increasing start order, each with a wire reply id one greater than the
\* packet written before it; when a read for a chunk reply has been made
\* all total_packets requests have been written, and no request is written
\* after such a read.
C28_RequestsBeforeReads ==
    /\ \A i \in 1..Len(io) :
        (io[i].op = "write" /\ io[i].c = CMD_DATA_RDY) =>
            /\ io[i].rid = rid_before(i) + 1
            /\ \A j \in 1..(i - 1) :
                /\ (io[j].op = "write" /\ io[j].c = CMD_DATA_RDY) => io[j].start < io[i].start
                /\ j \notin chunk_reads
    /\ chunk_reads # {} => Len(requests) = rwb.total_packets

\* C28 happens: three requests were written and then a chunk reply read,
\* over TCP.
C28_Witness ==
    /\ zk.kind = "Tcp"
    /\ rwb.total_packets = 3
    /\ Len(requests) = 3
    /\ chunk_reads # {}
    /\ rwb.reads > 0

\* A buffer holds bytes of a real-time event packet.
has_event_bytes(b) == \E i \in 1..Len(b) : b[i].src = CMD_REG_EVENT

\* C30: in the chunk-receive phase a packet whose command id is
\* CMD_REG_EVENT is skipped: none of its bytes is taken into the buffer
\* that fills a data slot (real_total_buffer of ZKTcp, total_buffer of
\* ZKUdp) nor into the assembled output.
C30_EventsSkipped ==
    /\ ~has_event_bytes(rwb.real_total_buffer)
    /\ ~has_event_bytes(rwb.total_buffer)
    /\ ~has_event_bytes(rwb.reply_data)
    /\ ~has_event_bytes(rwb.data)

\* The message auth returns when the reply it read carried the code of a
\* real-time event.
EventTakenForReply ==
    <<"Device authentication failed (response:", command_name(CMD_REG_EVENT), ")">>

\* C31: a CMD_REG_EVENT packet that arrives while the reply to a single
\* command is awaited is discarded and never taken for the reply: CMD_AUTH
\* never fails reporting the code of an event as the device's response.
C31_EventNeverTheReply == auth_error # EventTakenForReply

\* C40: within one sync_all the users and the logs are fetched over the same
\* kind of transport: when get_attendance_logs has returned the logs, the
\* client it ran on is of the kind the users came over.
C40_OneTransportKind ==
    (pc = "sa_logs" /\ rv.ok) => transport = users_via

RECURSIVE payloads(_)
\* The payloads of the CMD_DATA datagrams among ds, in the order of ds.
payloads(ds) ==
    IF ds = <<>> THEN <<>>
    ELSE LET d == Head(ds) IN
         IF d.hdr /\ d.c = CMD_DATA /\ d.n > 0
         THEN extend_from(<<[src |-> CMD_DATA, part |-> d.part, n |-> d.n]>>,
                          payloads(Tail(ds)))
         ELSE payloads(Tail(ds))

\* C32: in the UDP streaming read the output is the payloads of the
\* CMD_DATA datagrams received, in arrival order; datagrams of any other
\* command and datagrams shorter than a header add nothing; a datagram is
\* received only while the output is shorter than the declared size, and
\* the read returns the output once it is not.
C32_UdpOutput ==
    (zk.kind = "Udp" /\ rwb.first = "sized") =>
        /\ rwb.total_buffer = payloads(rwb.received)
        /\ \A i \in 0..(Len(rwb.received) - 1) :
            byte_len(payloads(SubSeq(rwb.received, 1, i))) < rwb.size
        /\ pc = "free2" =>
            /\ rwb.data = payloads(rwb.received)
            /\ byte_len(rwb.data) >= rwb.size

\* C32 happens: a UDP read of a dataset of 20 bytes returned after an event,
\* a CMD_PREPARE_DATA datagram and the data had arrived.
C32_Witness ==
    /\ zk.kind = "Udp" /\ pc = "free2" /\ rwb.first = "sized" /\ rwb.size = 20
    /\ Len(rwb.received) = 3
    /\ rwb.received[1].c = CMD_REG_EVENT
    /\ rwb.received[2].c = CMD_PREPARE_DATA
    /\ rwb.received[3].c = CMD_DATA
    /\ byte_len(rwb.data) = 20

\* C33: when the first response over TCP is CMD_DATA, read_with_buffer
\* returns as the dataset all payload bytes of that packet, however the
\* packet was split over socket reads.
C33_SmallDatasetWhole ==
    (zk.kind = "Tcp" /\ rwb.first = "small") => byte_len(rwb.data) = rwb.first_n

\* The dataset of S bytes, chunk by chunk in start order.
dataset(S) ==
    [j \in 1..chunks_of(S) |->
        [src |-> CMD_DATA, part |-> j - 1,
         n |-> IF j = chunks_of(S) /\ S % 65472 # 0 THEN S % 65472 ELSE 65472]]

\* C35: when a TCP streaming read of a declared size S > 0 from a device
\* that answers every chunk request with 8 bytes of metadata and the data
\* of the chunk returns Ok, the data are the S bytes of the dataset in start
\* order.
C35_TcpDatasetComplete ==
    (zk.kind = "Tcp" /\ rwb.device = "orderly" /\ rwb.first = "sized" /\ rwb.size > 0
     /\ pc = "free2") => rwb.data = dataset(rwb.size)

\* C36: whatever bytes arrive in the chunk-receive phase over TCP, the loop
\* over the packets of total_buffer never slices out of bounds.
C36_NoSliceOutOfBounds == rwb.panic # "slice"

\* The locals after the whole stream of an orderly device came in one read.
one_read(size) ==
    process_packets([NoRead EXCEPT !.size = size, !.remain = remain(size),
                                   !.total_packets = total_packets(size),
                                   !.packets_remaining = total_packets(size)],
                    Stream(size))

\* C37: the data a TCP chunk-receive phase assembles from the stream of an
\* orderly device, which holds no event, are the same however the stream
\* is split into socket reads: they are the data assembled when the whole
\* stream comes in one read.
C37_SegmentationIndependent ==
    (zk.kind = "Tcp" /\ rwb.device = "orderly" /\ rwb.first = "sized" /\ pc = "free2")
        => rwb.data = one_read(rwb.size).reply_data

\* The place in io of the request a read at place i was made for.
request_of(i) ==
    LET before == {j \in 1..(i - 1) : io[j].op = "write" /\ io[j].c = io[i].c} IN
    CHOOSE j \in before : \A m \in before : m <= j

\* C38: the response a read takes for the reply to a request carries the
\* wire reply id of that request, also after an earlier CMD_FREE_DATA timed
\* out and its reply arrives late.
C38_ReplyIdMatches ==
    \A i \in 1..Len(io) :
        (io[i].op = "read" /\ io[i].rid # 0) => io[i].rid = io[request_of(i)].rid

\* C39: when a UDP streaming read returns Ok the data are the dataset in
\* offset order, each chunk once, also when the chunk datagrams arrived
\* twice or out of order.
C39_UdpDatasetInOrder ==
    (zk.kind = "Udp" /\ rwb.first = "sized" /\ pc = "free2") => rwb.data = dataset(rwb.size)

\* C34: a streaming read that has come to its receive loop ends: it
\* returns Ok or an error, and no later than the deadline set when the loop
\* began.
C34_ReadEndsByDeadline ==
    (pc = "receive") ~> (pc \in {"free2", "returned"} /\ rwb.now <= rwb.deadline)

====
